---- MODULE Spec2Model ----
(***************************************************************************)
(* State-machine model of the PostgreSQL Profiler monitoring core:         *)
(*   services/celery_tasks.py        collection / analysis tasks           *)
(*   services/postgresql_monitor.py  connection pools and collectors       *)
(*   services/performance_analyzer.py  model cache and serving             *)
(*   services/ml_tasks.py            training jobs and model files         *)
(* Times are whole seconds, latencies whole milliseconds.                  *)
(***************************************************************************)
EXTENDS Integers, Sequences, FiniteSets, TLC

(***************************************************************************)
(* Bounds of the model                                                     *)
(***************************************************************************)
MaxTicks == 2          \* clock advances in one behaviour of SpecCache
MaxQSTicks == 1        \* clock advances in one behaviour of SpecQS
MaxCollectTicks == 1   \* clock advances in one behaviour of SpecCollect
MaxSamples == 2        \* PerformanceMetric rows stored per target
MaxJobs == 2           \* concurrently running collection jobs
MaxPoolsCreated == 3   \* pools created before no further job is started
MaxPassLen == 2        \* rows returned by one query-statistics pass
MaxMeanTime == 1100    \* largest mean_time classified in SpecCategory
MaxTrainRuns == 1      \* training runs that dump an artifact
MaxAlerts == 1         \* Alert rows
MaxServeTicks == 2     \* clock advances in one behaviour of SpecServe
MaxTrainTicks == 1     \* clock advances in one behaviour of SpecTrain
MaxAnalysisTicks == 1  \* clock advances in one behaviour of SpecAlerts
MaxOpenRuns == 2        \* Alert rows beyond which no further analysis run starts
MaxPasses == 2         \* SpecTwoPasses: passes running side by side
MaxPolls == 4          \* SpecAsync: calls of get_task_status in one behaviour

Targets == {1, 2}
NoTarget == 0          \* database_id=None (global model)

VARIABLES
    now,               \* wall clock (datetime.utcnow / datetime.now), seconds
    ticks,             \* number of clock advances so far
    is_active,         \* DatabaseConnection.is_active per target
    connection_status, \* DatabaseConnection.connection_status per target
    last_connected,    \* DatabaseConnection.last_connected per target
    connection_pools,  \* PostgreSQLMonitor.connection_pools: target -> pool id, 0 = absent
    pools_created,     \* every pool asyncpg.create_pool has returned: [id, db_id]
    performance_metrics, \* PerformanceMetric rows per target: their timestamps, in append order
    cm_result,         \* return value of the last collect_metrics_task
    job_pc,            \* SpecPoolRace: position of each concurrent collection job
    job_db,            \* SpecPoolRace: the db_id argument of each job
    job_pool,          \* SpecPoolRace: the local variable pool of create_connection_pool
    job_record,        \* SpecPoolRace: timestamp of the job's metric_record, once built
    query_statistics,  \* QueryStatistic table, rows grouped by (database_id, query_hash)
    qs_result,         \* return value of the last collect_query_statistics_task
    ct_mean,           \* SpecCategory: the mean_time under classification
    ct_update,         \* SpecCategory: category assigned by the update path
    ct_insert,         \* SpecCategory: category assigned by the insert path
    model_files,       \* ml_models/*.pkl: path -> [run, mtime], run 0 = no such file
    train_runs,        \* training runs that have written a file so far
    models_cache,      \* OptimizedPerformanceAnalyzer.models_cache: key -> loaded object
    last_cache_update, \* OptimizedPerformanceAnalyzer.last_cache_update: key -> time
    alerts,            \* Alert table, in insertion order
    ml_result,         \* outcome of the serving or training call that just returned
    closed_pools,      \* ids of the pools on which Pool.close() has completed
    mon_result,        \* outcome of the last direct PostgreSQLMonitor call
    redis,             \* the Redis store: key -> stored bytes
    cache_result,      \* outcome of the last CacheService call
    db_rows,           \* ids of the rows of the database_connections table
    http_result,       \* outcome of the last HTTP request
    tasks,             \* AsyncTaskManager.tasks: task id -> task_info
    task_pc,           \* position of each task's worker thread
    polls,             \* what get_task_status has returned, per task id asked for
    recommendations,   \* Recommendation table, in insertion order
    auto_monitoring,   \* DatabaseConnection.auto_monitoring, per target
    queue,             \* the broker: messages sent by apply_async and not yet received
    runs,              \* the task runs a worker has started
    beats,             \* how often celery beat has sent schedule_monitoring_tasks
    sched_result,      \* return value of the last schedule_monitoring_tasks
    pass,              \* SpecPass: position of a query-statistics pass in its loop
    session_rows,      \* SpecPass: the QueryStatistic rows as the pass's session holds them
    seen_rows,         \* SpecPass: what the SELECTs of other sessions have returned
    passes             \* SpecTwoPasses: the passes running side by side, each with its session

varsClock == <<now, ticks>>
varsTargets == <<is_active, connection_status, last_connected>>
varsPools == <<connection_pools, pools_created>>
varsCollect == <<performance_metrics, cm_result>>
varsJobs == <<job_pc, job_db, job_pool, job_record>>
varsQS == <<query_statistics, qs_result>>
varsCT == <<ct_mean, ct_update, ct_insert>>
varsFiles == <<model_files, train_runs>>
varsCache == <<models_cache, last_cache_update>>
varsML == <<varsFiles, varsCache, alerts, ml_result>>
varsMon == <<closed_pools, mon_result>>
varsApi == <<redis, cache_result, db_rows, http_result>>
varsAsync == <<tasks, task_pc, polls>>
varsOps == <<recommendations>>
varsBroker == <<auto_monitoring, queue, runs, beats, sched_result>>
varsPass == <<pass, session_rows, seen_rows, passes>>
varsExt == <<varsMon, varsApi, varsAsync, varsOps, varsBroker, varsPass>>
vars == <<varsClock, varsTargets, varsPools, varsCollect, varsJobs, varsQS, varsCT, varsML,
          varsExt>>

NoPool == 0

(***************************************************************************)
(* Clock                                                                   *)
(***************************************************************************)
AdvanceClock(d, max) ==
    /\ ticks < max
    /\ now' = now + d
    /\ ticks' = ticks + 1

(***************************************************************************)
(* Query statistics: postgresql_monitor.collect_query_statistics and       *)
(* celery_tasks.collect_query_statistics_task                              *)
(***************************************************************************)
Queries == {"SELECT a", "UPDATE b"}
\* (calls, mean_exec_time) readings of one statement
Readings == {<<3, 40>>, <<7, 1500>>}

\* hashlib.md5(text.encode()).hexdigest(): a digest per text
md5_hexdigest(q) ==
    CASE q = "SELECT a" -> "d1a0"
      [] q = "UPDATE b" -> "7c3e"
      [] q = "get_databases:http://localhost:5000/api/databases:GET"
            -> "f0851e8bb346d3f158c4b5fb54072a81"
      [] q = "get_databases:http://localhost:5000/api/databases?page=2:GET:[('page', '2')]"
            -> "fdcf0121c9a1f125391b054736e88887"

\* _detect_query_type: the leading keyword of the statement
_detect_query_type(q) ==
    CASE q = "SELECT a" -> "SELECT"
      [] q = "UPDATE b" -> "UPDATE"
      [] OTHER -> "OTHER"

QueryHashes == {md5_hexdigest(q) : q \in Queries}

\* one row of pg_stat_statements as the collector selects it
PgStatRows ==
    {[query |-> q, calls |-> r[1], mean_time |-> r[2]] : q \in Queries, r \in Readings}

\* the dict built per row by collect_query_statistics
StatDict(row) ==
    [query_hash |-> md5_hexdigest(row.query),
     query_text |-> row.query,
     query_type |-> _detect_query_type(row.query),
     calls |-> row.calls,
     total_time |-> row.calls * row.mean_time,
     mean_time |-> row.mean_time,
     min_time |-> row.mean_time \div 2,
     max_time |-> row.mean_time * 2,
     rows_returned |-> row.calls * 10,
     shared_blks_hit |-> row.calls * 4,
     shared_blks_read |-> row.calls,
     shared_blks_written |-> 0]

\* result of PostgreSQLMonitor.collect_query_statistics: [] without a pool,
\* [] without the pg_stat_statements extension or on a query error,
\* otherwise one dict per fetched row, in fetch order
collect_query_statistics(pools, db_id, extension_exists, query_ok, rows) ==
    IF pools[db_id] = NoPool THEN << >>
    ELSE IF ~query_ok THEN << >>
    ELSE IF ~extension_exists THEN << >>
    ELSE [i \in 1..Len(rows) |-> StatDict(rows[i])]

statements_run_SkipsExtensionCheck(pools, db_id, extension_exists, query_ok) ==
    IF pools[db_id] = NoPool THEN << >>
    ELSE <<"pg_stat_statements">>

\* the statements collect_query_statistics sends to the target: none without
\* a pool; the pg_extension lookup alone when it raises or finds no
\* pg_stat_statements; otherwise the lookup and the pg_stat_statements fetch
statements_run(pools, db_id, extension_exists, query_ok) ==
    IF pools[db_id] = NoPool THEN << >>
    ELSE IF ~query_ok THEN <<"pg_extension">>
    ELSE IF ~extension_exists THEN <<"pg_extension">>
    ELSE <<"pg_extension", "pg_stat_statements">>

UpdateCategory_Inclusive(mean_time) ==
    IF mean_time >= 1000 THEN "critical"
    ELSE IF mean_time >= 500 THEN "slow"
    ELSE IF mean_time >= 100 THEN "normal"
    ELSE "fast"

\* DatabaseConnection.query.get(db_id): a row, or None for an id without one
Found(db_id) == db_id \in Targets

DatabaseInactive_MissingOnly(db_id) == ~Found(db_id)

\* the test before the 'skipped' return of the three monitoring tasks:
\* not db_connection or not db_connection.is_active
DatabaseInactive(db_id) == ~Found(db_id) \/ ~is_active[db_id]

\* classification on the update path (existing row)
UpdateCategory(mean_time) ==
    IF mean_time > 1000 THEN "critical"
    ELSE IF mean_time > 500 THEN "slow"
    ELSE IF mean_time > 100 THEN "normal"
    ELSE "fast"

\* classification on the insert path (new row)
InsertCategory(mean_time) ==
    IF mean_time > 1000 THEN "critical"
    ELSE IF mean_time > 500 THEN "slow"
    ELSE IF mean_time > 100 THEN "normal"
    ELSE "fast"

\* existing.<field> = stat[<field>] ...; existing.last_seen = utcnow()
UpdateRow(existing, stat, t) ==
    [existing EXCEPT
        !.calls = stat.calls,
        !.total_time = stat.total_time,
        !.mean_time = stat.mean_time,
        !.min_time = stat.min_time,
        !.max_time = stat.max_time,
        !.rows_returned = stat.rows_returned,
        !.shared_blks_hit = stat.shared_blks_hit,
        !.shared_blks_read = stat.shared_blks_read,
        !.shared_blks_written = stat.shared_blks_written,
        !.last_seen = t,
        !.performance_category = UpdateCategory(stat.mean_time)]

\* QueryStatistic(database_id=..., query_hash=..., ...) plus its category
InsertRow(db_id, stat, t) ==
    [database_id |-> db_id,
     query_hash |-> stat.query_hash,
     query_text |-> stat.query_text,
     query_type |-> stat.query_type,
     calls |-> stat.calls,
     total_time |-> stat.total_time,
     mean_time |-> stat.mean_time,
     min_time |-> stat.min_time,
     max_time |-> stat.max_time,
     rows_returned |-> stat.rows_returned,
     shared_blks_hit |-> stat.shared_blks_hit,
     shared_blks_read |-> stat.shared_blks_read,
     shared_blks_written |-> stat.shared_blks_written,
     last_seen |-> t,
     performance_category |-> InsertCategory(stat.mean_time)]

UpsertStat_AlwaysInsert(table, db_id, stat, t) ==
    [table EXCEPT ![db_id][stat.query_hash] = Append(@, InsertRow(db_id, stat, t))]

\* one iteration of the loop: filter_by(database_id, query_hash).first(),
\* then update that row or add a new one.  The session autoflushes before
\* the query, so a row added earlier in the same pass is found.
UpsertStat(table, db_id, stat, t) ==
    LET rows == table[db_id][stat.query_hash] IN
    IF rows # << >>
    THEN [table EXCEPT ![db_id][stat.query_hash] =
            <<UpdateRow(Head(rows), stat, t)>> \o Tail(rows)]
    ELSE [table EXCEPT ![db_id][stat.query_hash] =
            Append(rows, InsertRow(db_id, stat, t))]

\* the for-loop over query_stats
RECURSIVE ApplyStats(_, _, _, _)
ApplyStats(table, db_id, stats, t) ==
    IF stats = << >> THEN table
    ELSE ApplyStats(UpsertStat(table, db_id, Head(stats), t), db_id, Tail(stats), t)

\* number of loop iterations that took the update branch
RECURSIVE CountUpdated(_, _, _, _)
CountUpdated(table, db_id, stats, t) ==
    IF stats = << >> THEN 0
    ELSE (IF table[db_id][Head(stats).query_hash] # << >> THEN 1 ELSE 0)
         + CountUpdated(UpsertStat(table, db_id, Head(stats), t), db_id, Tail(stats), t)

PassRows == UNION {[1..n -> PgStatRows] : n \in 0..MaxPassLen}

\* what the target answers in one pass: the fetched rows, or a failure
PassOutcomes ==
    [kind : {"rows"}, rows : PassRows]
    \cup [kind : {"no_extension", "query_error", "commit_error"}, rows : {<< >>}]

\* the value collect_query_statistics_task returns, with what the run met
\* (outcome), what it sent to the target and whether it changed the table
QueryStatsResult(db_id, status, outcome, statements, stats, updated, table) ==
    [status |-> status, db_id |-> db_id, stats |-> stats, updated |-> updated,
     new |-> Len(stats) - updated, outcome |-> outcome, statements |-> statements,
     table_changed |-> table # query_statistics]

\* one run of collect_query_statistics_task(db_id) against a target that
\* answers with outcome
collect_query_statistics_run(db_id, outcome) ==
        /\ IF DatabaseInactive(db_id)
           THEN /\ qs_result' = QueryStatsResult(db_id, "skipped", outcome.kind, << >>,
                                                 << >>, 0, query_statistics)
                /\ UNCHANGED query_statistics
           ELSE LET stats == collect_query_statistics(connection_pools, db_id,
                                 outcome.kind # "no_extension",
                                 outcome.kind # "query_error", outcome.rows)
                    statements == statements_run(connection_pools, db_id,
                                 outcome.kind # "no_extension",
                                 outcome.kind # "query_error")
                    updated == CountUpdated(query_statistics, db_id, stats, now)
                    applied == ApplyStats(query_statistics, db_id, stats, now)
                IN IF outcome.kind # "commit_error"
                   THEN /\ query_statistics' = applied
                        /\ qs_result' = QueryStatsResult(db_id, "success", outcome.kind,
                                                         statements, stats, updated, applied)
                   ELSE /\ UNCHANGED query_statistics
                        /\ qs_result' = QueryStatsResult(db_id, "error", outcome.kind,
                                                         statements, << >>, 0,
                                                         query_statistics)
        /\ UNCHANGED <<varsClock, varsTargets, varsPools, varsCollect, varsJobs, varsCT, varsML,
                       varsMon, varsApi, varsAsync, varsOps, varsPass, auto_monitoring, beats,
                       sched_result>>

\* collect_query_statistics_task(db_id), called directly
collect_query_statistics_task(db_id) ==
    /\ \E outcome \in PassOutcomes : collect_query_statistics_run(db_id, outcome)
    /\ UNCHANGED <<queue, runs>>

TickQS ==
    /\ AdvanceClock(1, MaxQSTicks)
    /\ UNCHANGED <<varsTargets, varsPools, varsCollect, varsJobs, varsQS, varsCT, varsExt, varsML>>

CollectQueryStats == \E db_id \in Targets : collect_query_statistics_task(db_id)

\* a row of target 2 stored by an earlier pass, before this behaviour starts
EarlierRow ==
    InsertRow(2, StatDict([query |-> "SELECT a", calls |-> 3, mean_time |-> 40]), 0)

(***************************************************************************)
(* Model artifacts: ml_tasks.py (paths, load_model) and                     *)
(* performance_analyzer.py (OptimizedPerformanceAnalyzer)                  *)
(***************************************************************************)
\* Python None, kept apart from every run number, reading and time
None == -1
NoTime == -1

MIN_TRAIN_SIZE == 50
MIN_PREDICTION_SIZE == 10
cache_ttl == 3600
SecondsPerDay == 86400
ModelMaxAgeDays == 7
\* severity cutoff -0.5 of _create_anomaly_alert, in hundredths
AnomalySeverityCutoff == -50

\* targets the serving and training operations are called for
MLOwners == {NoTarget, 1}

MODEL_DIR == "ml_models"
LOAD_PREDICTOR_PATH == MODEL_DIR \o "/" \o "load_predictor.pkl"
ANOMALY_DETECTOR_PATH == MODEL_DIR \o "/" \o "anomaly_detector.pkl"
QUERY_TIME_PREDICTOR_PATH == MODEL_DIR \o "/" \o "query_time_predictor.pkl"
SCALER_PATH == MODEL_DIR \o "/" \o "scaler.pkl"

\* get_model_paths for every owner; `if database_id:` is false for None and 0
ModelPaths ==
  [database_id \in MLOwners |->
    IF database_id # NoTarget
    THEN [load_predictor |-> MODEL_DIR \o "/load_predictor_db_" \o ToString(database_id) \o ".pkl",
          load_scaler |-> MODEL_DIR \o "/scaler_db_" \o ToString(database_id) \o ".pkl",
          anomaly_detector |-> MODEL_DIR \o "/anomaly_detector_db_" \o ToString(database_id) \o ".pkl",
          anomaly_scaler |-> MODEL_DIR \o "/anomaly_scaler_db_" \o ToString(database_id) \o ".pkl",
          query_time_predictor |-> MODEL_DIR \o "/query_time_predictor_db_" \o ToString(database_id) \o ".pkl",
          query_time_scaler |-> MODEL_DIR \o "/query_time_scaler_db_" \o ToString(database_id) \o ".pkl"]
    ELSE [load_predictor |-> LOAD_PREDICTOR_PATH,
          load_scaler |-> SCALER_PATH,
          anomaly_detector |-> ANOMALY_DETECTOR_PATH,
          anomaly_scaler |-> MODEL_DIR \o "/anomaly_scaler.pkl",
          query_time_predictor |-> QUERY_TIME_PREDICTOR_PATH,
          query_time_scaler |-> MODEL_DIR \o "/query_time_scaler.pkl"]]

get_model_paths(database_id) == ModelPaths[database_id]

PathNames == {"load_predictor", "load_scaler", "anomaly_detector", "anomaly_scaler",
              "query_time_predictor", "query_time_scaler"}

\* every .pkl file the model directory can hold
AllPaths == {get_model_paths(o)[n] : o \in MLOwners, n \in PathNames}

\* the cache key built by the serving operations: f"{prefix}_{database_id}"
\* for a target, f"{prefix}_global" otherwise
KeyPrefixes == {"load_predictor", "load_scaler", "anomaly_detector", "anomaly_scaler",
                "query_time_predictor", "query_time_scaler"}

CacheKeys ==
    [prefix \in KeyPrefixes |->
        [database_id \in MLOwners |->
            IF database_id # NoTarget THEN prefix \o "_" \o ToString(database_id)
            ELSE prefix \o "_global"]]

CacheKey(prefix, database_id) == CacheKeys[prefix][database_id]

AllKeys == {CacheKey(k, o) : k \in KeyPrefixes, o \in MLOwners}

NoFile == [run |-> None, mtime |-> 0]

load_model_DefaultModel(files, model_path) ==
    IF files[model_path] = NoFile THEN 0 ELSE files[model_path].run

\* load_model: None when the file does not exist, else the unpickled object
\* (identified by the training run that wrote it)
load_model(files, model_path) ==
    IF files[model_path] = NoFile THEN None ELSE files[model_path].run

\* timedelta.seconds: the seconds field of the normalised (days, seconds)
\* pair, i.e. the difference modulo one day
timedelta_seconds(delta) == delta % SecondsPerDay

timedelta_total_seconds(delta) == delta

\* the freshness test of _get_cached_model (lines 33-35)
CacheIsFresh(st, model_key, current_time) ==
    /\ st.upd[model_key] # NoTime
    /\ timedelta_seconds(current_time - st.upd[model_key]) < cache_ttl
    /\ st.cache[model_key] # None

\* _get_cached_model on the analyzer state st = [cache, upd]: the returned
\* object, the new analyzer state and a record of where the object came from
_get_cached_model(st, files, model_key, model_path, current_time) ==
    IF CacheIsFresh(st, model_key, current_time)
    THEN [model |-> st.cache[model_key], st |-> st,
          look |-> [key |-> model_key, source |-> "cache",
                    prev |-> st.upd[model_key], at |-> current_time]]
    ELSE LET model == load_model(files, model_path) IN
         [model |-> model,
          st |-> IF model # None
                 THEN [cache |-> [st.cache EXCEPT ![model_key] = model],
                       upd |-> [st.upd EXCEPT ![model_key] = current_time]]
                 ELSE st,
          look |-> [key |-> model_key, source |-> IF model # None THEN "storage" ELSE "missing",
                    prev |-> st.upd[model_key], at |-> current_time]]

\* the lookup shared by predict_load (lines 52-66), detect_anomalies
\* (lines 122-134) and predict_query_time (lines 180-192): the target's
\* estimator and scaler, then the global pair when the estimator is None
LookupPair(st, files, current_time, database_id, model_name, scaler_name) ==
    LET paths == get_model_paths(database_id)
        r1 == _get_cached_model(st, files, CacheKey(model_name, database_id),
                                paths[model_name], current_time)
        r2 == _get_cached_model(r1.st, files, CacheKey(scaler_name, database_id),
                                paths[scaler_name], current_time)
    IN IF r1.model = None /\ database_id # NoTarget
       THEN LET global_paths == get_model_paths(NoTarget)
                r3 == _get_cached_model(r2.st, files, CacheKey(model_name, NoTarget),
                                        global_paths[model_name], current_time)
                r4 == _get_cached_model(r3.st, files, CacheKey(scaler_name, NoTarget),
                                        global_paths[scaler_name], current_time)
            IN [model |-> r3.model, scaler |-> r4.model, st |-> r4.st,
                owner |-> NoTarget, lookups |-> <<r1.look, r2.look, r3.look, r4.look>>]
       ELSE [model |-> r1.model, scaler |-> r2.model, st |-> r2.st,
             owner |-> database_id, lookups |-> <<r1.look, r2.look>>]

(***************************************************************************)
(* Metric rows as the ML code reads them                                   *)
(***************************************************************************)
CompleteRow ==
    [timestamp |-> 0, cpu_usage |-> 50, memory_usage |-> 60, disk_io |-> 100, active_connections |-> 5,
     cache_hit_ratio |-> 99, avg_query_time |-> 12, locks_count |-> 0, deadlocks_count |-> 0]
NoCpuRow == [CompleteRow EXCEPT !.cpu_usage = None]
NoDiskRow == [CompleteRow EXCEPT !.disk_io = None]
NoQueryTimeRow == [CompleteRow EXCEPT !.avg_query_time = None]
ZeroQueryTimeRow == [CompleteRow EXCEPT !.avg_query_time = 0]

\* _prepare_load_features: None unless cpu, memory, disk_io, connections are
\* set, else the feature list (modelled by its length)
_prepare_load_features(metrics) ==
    IF \E v \in {metrics.cpu_usage, metrics.memory_usage, metrics.disk_io,
                 metrics.active_connections} : v = None
    THEN None ELSE 8

\* _prepare_anomaly_features
_prepare_anomaly_features(metrics) ==
    IF \E v \in {metrics.cpu_usage, metrics.memory_usage, metrics.active_connections,
                 metrics.avg_query_time} : v = None
    THEN None ELSE 7

\* _prepare_query_time_features
_prepare_query_time_features(metrics) ==
    IF \E v \in {metrics.cpu_usage, metrics.memory_usage, metrics.active_connections} : v = None
    THEN None ELSE 5

RECURSIVE CountAll(_, _)
CountAll(metrics, ts) ==
    IF ts = {} THEN 0
    ELSE LET t == CHOOSE x \in ts : TRUE
         IN Len(metrics[t]) + CountAll(metrics, ts \ {t})

\* _get_historical_metrics_count: the target's rows, every row without a
\* target, 0 when the query raises
_get_historical_metrics_count(metrics, database_id, query_ok) ==
    IF ~query_ok THEN 0
    ELSE IF database_id # NoTarget THEN Len(metrics[database_id])
    ELSE CountAll(metrics, Targets)

\* decision_function values of the detector, in hundredths
AnomalyScores == {AnomalySeverityCutoff - 10, AnomalySeverityCutoff, 15}

NewAlert(database_id, alert_type, severity, metric_name) ==
    [database_id |-> database_id, alert_type |-> alert_type, severity |-> severity,
     metric_name |-> metric_name, acknowledged |-> FALSE, is_resolved |-> FALSE,
     resolved_at |-> None]

\* the origin columns of the Alert of _create_anomaly_alert (line 379)
MLOrigin == [alert_source |-> "ml_model"]

_create_anomaly_alert_HighAtCutoff(table, database_id, anomaly_score, insert_ok) ==
    IF insert_ok /\ database_id # NoTarget
    THEN Append(table, NewAlert(database_id, "anomaly",
                                IF anomaly_score <= AnomalySeverityCutoff THEN "high" ELSE "medium",
                                "performance_anomaly") @@ MLOrigin)
    ELSE table

\* _create_anomaly_alert: one Alert row, or none when the insert raises
\* (database_id is not nullable) and the session is rolled back
_create_anomaly_alert(table, database_id, anomaly_score, insert_ok) ==
    IF insert_ok /\ database_id # NoTarget
    THEN Append(table, NewAlert(database_id, "anomaly",
                                IF anomaly_score < AnomalySeverityCutoff THEN "high" ELSE "medium",
                                "performance_anomaly") @@ MLOrigin)
    ELSE table

Analyzer == [cache |-> models_cache, upd |-> last_cache_update]

ServeFrame == UNCHANGED <<varsClock, varsTargets, varsPools, varsCollect, varsJobs,
                          varsQS, varsCT, varsExt, varsFiles>>

ServeResult(op, database_id, r, returned, reason, alert_created) ==
    [op |-> op, database_id |-> database_id, at |-> now, lookups |-> r.lookups,
     owner |-> r.owner, model |-> r.model, scaler |-> r.scaler,
     returned |-> returned, reason |-> reason, alert_created |-> alert_created]

HistoryCheck(count) == ~(count < MIN_PREDICTION_SIZE)

\* OptimizedPerformanceAnalyzer.predict_load
predict_load(latest_metrics, database_id, count_ok) ==
    LET r == LookupPair(Analyzer, model_files, now, database_id,
                        "load_predictor", "load_scaler")
        historical_count == _get_historical_metrics_count(performance_metrics, database_id, count_ok)
        features == _prepare_load_features(latest_metrics)
    IN /\ models_cache' = r.st.cache
       /\ last_cache_update' = r.st.upd
       /\ alerts' = alerts
       /\ ml_result' =
            IF r.model = None \/ r.scaler = None
            THEN ServeResult("predict_load", database_id, r, "None", "model_not_found", FALSE)
            ELSE IF ~HistoryCheck(historical_count)
            THEN ServeResult("predict_load", database_id, r, "None", "insufficient_history", FALSE)
            ELSE IF features = None
            THEN ServeResult("predict_load", database_id, r, "None", "invalid_features", FALSE)
            ELSE ServeResult("predict_load", database_id, r, "prediction", "none", FALSE)
       /\ ServeFrame

\* the anomaly_score entry of the result of detect_anomalies, with the size
\* of the alert table before the call and whether the alert insert went
\* through (the except branch of _create_anomaly_alert was not taken)
Scored(anomaly_score, table, stored) ==
    [anomaly_score |-> anomaly_score, alerts_before |-> Len(table), alert_stored |-> stored]

\* OptimizedPerformanceAnalyzer.detect_anomalies
detect_anomalies(latest_metrics, database_id, anomaly_score, insert_ok) ==
    LET r == LookupPair(Analyzer, model_files, now, database_id,
                        "anomaly_detector", "anomaly_scaler")
        features == _prepare_anomaly_features(latest_metrics)
        is_anomaly == anomaly_score < 0
        table == _create_anomaly_alert(alerts, database_id, anomaly_score, insert_ok)
    IN /\ models_cache' = r.st.cache
       /\ last_cache_update' = r.st.upd
       /\ IF r.model = None \/ r.scaler = None
          THEN /\ alerts' = alerts
               /\ ml_result' = ServeResult("detect_anomalies", database_id, r,
                                           "anomaly_detected=False", "model_not_found", FALSE)
          ELSE IF features = None
          THEN /\ alerts' = alerts
               /\ ml_result' = ServeResult("detect_anomalies", database_id, r,
                                           "anomaly_detected=False", "invalid_features", FALSE)
          ELSE IF is_anomaly
          THEN /\ alerts' = table
               /\ ml_result' = ServeResult("detect_anomalies", database_id, r,
                                           "anomaly_detected=True", "none", table # alerts)
                                   @@ Scored(anomaly_score, alerts, table # alerts)
          ELSE /\ alerts' = alerts
               /\ ml_result' = ServeResult("detect_anomalies", database_id, r,
                                           "anomaly_detected=False", "none", FALSE)
                                   @@ Scored(anomaly_score, alerts, TRUE)
       /\ ServeFrame

\* OptimizedPerformanceAnalyzer.predict_query_time
predict_query_time(latest_metrics, database_id) ==
    LET r == LookupPair(Analyzer, model_files, now, database_id,
                        "query_time_predictor", "query_time_scaler")
        features == _prepare_query_time_features(latest_metrics)
    IN /\ models_cache' = r.st.cache
       /\ last_cache_update' = r.st.upd
       /\ alerts' = alerts
       /\ ml_result' =
            IF r.model = None \/ r.scaler = None
            THEN ServeResult("predict_query_time", database_id, r, "None", "model_not_found", FALSE)
            ELSE IF features = None
            THEN ServeResult("predict_query_time", database_id, r, "None", "invalid_features", FALSE)
            ELSE ServeResult("predict_query_time", database_id, r, "prediction", "none", FALSE)
       /\ ServeFrame

(***************************************************************************)
(* Training jobs and model file cleanup: ml_tasks.py                       *)
(***************************************************************************)
\* historical_metrics of a training job: every row, or the target's rows
\* (the row limits 10000 and 5000 lie beyond the histories explored here)
historical_metrics(metrics, database_id) ==
    IF database_id # NoTarget THEN {<<database_id, i>> : i \in 1..Len(metrics[database_id])}
    ELSE UNION {{<<t, i>> : i \in 1..Len(metrics[t])} : t \in Targets}

\* the row filter of train_load_predictor (lines 71-75)
LoadRowIsValid(metric) ==
    \A v \in {metric.cpu_usage, metric.memory_usage, metric.disk_io,
              metric.active_connections, metric.cache_hit_ratio, metric.avg_query_time} : v # None

\* the row filter of train_anomaly_detector (lines 200-203)
AnomalyRowIsValid(metric) ==
    \A v \in {metric.cpu_usage, metric.memory_usage, metric.active_connections,
              metric.avg_query_time} : v # None

\* the row filter of train_query_time_predictor (lines 286-289)
QueryTimeRowIsValid(metric) ==
    /\ \A v \in {metric.cpu_usage, metric.memory_usage, metric.active_connections,
                 metric.avg_query_time} : v # None
    /\ metric.avg_query_time > 0

TrainOutcomes == {"ok", "query_raised", "scaler_dump_raised"}

TrainFrame == UNCHANGED <<varsClock, varsTargets, varsPools, varsCollect, varsJobs,
                          varsQS, varsCT, varsExt, varsCache, alerts>>

TrainResult(op, database_id, status, records, valid_records) ==
    [op |-> op, database_id |-> database_id, status |-> status,
     records |-> records, valid_records |-> valid_records]

EnoughRows_AtLeastPredictionSize(count) == ~(count < MIN_PREDICTION_SIZE)
EnoughRows(count) == ~(count < MIN_TRAIN_SIZE)

\* the body shared by the three jobs: read the rows, return insufficient_data
\* or insufficient_valid_data below MIN_TRAIN_SIZE, else fit and dump the
\* estimator, then the scaler; an exception (the query raising, the scaler
\* dump raising) schedules a retry
TrainRun(op, database_id, valid_records, model_path, scaler_path, outcome) ==
    LET records == Cardinality(historical_metrics(performance_metrics, database_id))
        artifact == [run |-> train_runs + 1, mtime |-> now]
    IN /\ IF outcome = "query_raised"
          THEN /\ ml_result' = TrainResult(op, database_id, "retry", None, None)
               /\ UNCHANGED varsFiles
          ELSE IF ~EnoughRows(records)
          THEN /\ ml_result' = TrainResult(op, database_id, "insufficient_data", records, valid_records)
               /\ UNCHANGED varsFiles
          ELSE IF ~EnoughRows(valid_records)
          THEN /\ ml_result' = TrainResult(op, database_id, "insufficient_valid_data",
                                           records, valid_records)
               /\ UNCHANGED varsFiles
          ELSE /\ train_runs < MaxTrainRuns
               /\ train_runs' = train_runs + 1
               /\ IF outcome = "scaler_dump_raised"
                  THEN /\ model_files' = [model_files EXCEPT ![model_path] = artifact]
                       /\ ml_result' = TrainResult(op, database_id, "retry", records, valid_records)
                  ELSE /\ model_files' = [model_files EXCEPT ![model_path] = artifact,
                                                             ![scaler_path] = artifact]
                       /\ ml_result' = TrainResult(op, database_id, "success", records, valid_records)
       /\ UNCHANGED <<varsClock, varsTargets, varsPools, varsCollect, varsJobs, varsQS, varsCT,
                      varsCache, alerts, varsMon, varsApi, varsAsync, varsOps, varsPass,
                      auto_monitoring, beats, sched_result>>

ValidCount(metrics, database_id, IsValid(_)) ==
    Cardinality({r \in historical_metrics(metrics, database_id) : IsValid(metrics[r[1]][r[2]])})

train_load_predictor_run(database_id, outcome) ==
    TrainRun("train_load_predictor", database_id,
             ValidCount(performance_metrics, database_id, LoadRowIsValid),
             get_model_paths(database_id).load_predictor,
             get_model_paths(database_id).load_scaler, outcome)

\* train_load_predictor(database_id), called directly
train_load_predictor(database_id, outcome) ==
    /\ train_load_predictor_run(database_id, outcome)
    /\ UNCHANGED <<queue, runs>>

train_anomaly_detector_run(database_id, outcome) ==
    TrainRun("train_anomaly_detector", database_id,
             ValidCount(performance_metrics, database_id, AnomalyRowIsValid),
             get_model_paths(database_id).anomaly_detector,
             get_model_paths(database_id).anomaly_scaler, outcome)

\* train_anomaly_detector(database_id), called directly
train_anomaly_detector(database_id, outcome) ==
    /\ train_anomaly_detector_run(database_id, outcome)
    /\ UNCHANGED <<queue, runs>>

train_query_time_predictor_run(database_id, outcome) ==
    TrainRun("train_query_time_predictor", database_id,
             ValidCount(performance_metrics, database_id, QueryTimeRowIsValid),
             get_model_paths(database_id).query_time_predictor,
             get_model_paths(database_id).query_time_scaler, outcome)

\* train_query_time_predictor(database_id), called directly
train_query_time_predictor(database_id, outcome) ==
    /\ train_query_time_predictor_run(database_id, outcome)
    /\ UNCHANGED <<queue, runs>>

\* cleanup_old_models: removes every .pkl file modified before now - 7 days
cleanup_old_models ==
    LET cutoff_date == now - ModelMaxAgeDays * SecondsPerDay
        deleted_files == {path \in AllPaths :
                             model_files[path] # NoFile /\ model_files[path].mtime < cutoff_date}
    IN /\ model_files' = [path \in AllPaths |->
                             IF path \in deleted_files THEN NoFile ELSE model_files[path]]
       /\ ml_result' = [op |-> "cleanup_old_models", deleted_count |-> Cardinality(deleted_files)]
       /\ UNCHANGED train_runs
       /\ TrainFrame

NoResult == [op |-> "none"]

IdleML ==
    /\ model_files = [path \in AllPaths |-> NoFile]
    /\ train_runs = 0
    /\ models_cache = [k \in AllKeys |-> None]
    /\ last_cache_update = [k \in AllKeys |-> NoTime]
    /\ alerts = << >>
    /\ ml_result = NoResult

(***************************************************************************)
(* Redis cache: cache_service.py (CacheService, cache_response,            *)
(* _generate_cache_key) and the routes of main.py that use it              *)
(***************************************************************************)
\* Python values as the cache layer sees them
PyNone == [type |-> "None"]
PyBool(b) == [type |-> "bool", truth |-> b]
PyInt(n) == [type |-> "int", number |-> n]
PyStr(text) == [type |-> "str", text |-> text]
\* the flask Response built by jsonify for a listing of the given ids
ListingResponse(ids) == [type |-> "Response", status |-> 200, data |-> ids]

\* no entry under a key
NoValue == [type |-> "nil"]
\* bytes that hold a JSON document
JsonBytes(document) == [type |-> "bytes", json |-> document]
\* str(metrics) as collect_metrics_task stores it: a Python repr, not JSON
ReprBytes == [type |-> "bytes", repr |-> "{'active_connections': 5}"]

\* the GET requests of the listing route: url, method and query arguments
ListingRequests ==
    {[url |-> "http://localhost:5000/api/databases", method |-> "GET", args |-> ""],
     [url |-> "http://localhost:5000/api/databases?page=2", method |-> "GET",
      args |-> "[('page', '2')]"]}

\* _generate_cache_key: the md5 digest of name, url, method and sorted args
_generate_cache_key(func_name, request) ==
    LET key_data == func_name \o ":" \o request.url \o ":" \o request.method
    IN md5_hexdigest(IF request.args # "" THEN key_data \o ":" \o request.args
                     ELSE key_data)

ListingKeys == {_generate_cache_key("get_databases", r) : r \in ListingRequests}
MetricsKeys == {"latest_metrics:1", "dashboard:1"}
RedisKeys == ListingKeys \cup MetricsKeys

\* the pattern main.py passes to delete_pattern after a target was created
ListingPattern == "get_databases:*"
Patterns == {ListingPattern, "dashboard:*"}

\* redis KEYS for a pattern that ends in *: the keys that start with the
\* text before the *
KeyMatches(pattern, key) ==
    LET prefix == SubSeq(pattern, 1, Len(pattern) - 1)
    IN Len(key) >= Len(prefix) /\ SubSeq(key, 1, Len(prefix)) = prefix

redis_keys(store, pattern) ==
    {k \in DOMAIN store : store[k] # NoValue /\ KeyMatches(pattern, k)}

\* str(Response) is "<Response N bytes [200 OK]>": the body is gone, only
\* its length N is left; body_of keeps the listing that determined N
ResponseStr(response) ==
    [type |-> "str", text |-> "<Response N bytes [200 OK]>", body_of |-> response.data]

\* json.dumps(value, default=str): an object json cannot encode is replaced
\* by its str()
json_dumps(value) ==
    IF value.type = "Response" THEN JsonBytes(ResponseStr(value))
    ELSE JsonBytes(value)

\* what a CacheService call returns and leaves: raised is whether an
\* exception leaves the call
CacheOutcome(returned, raised, store) ==
    [returned |-> returned, raised |-> raised, store |-> store]

get_Unguarded(store, key, store_ok) ==
    IF ~store_ok THEN CacheOutcome(PyNone, TRUE, store)
    ELSE IF store[key] = NoValue THEN CacheOutcome(PyNone, FALSE, store)
    ELSE IF "json" \in DOMAIN store[key] THEN CacheOutcome(store[key].json, FALSE, store)
    ELSE CacheOutcome(PyNone, TRUE, store)

\* CacheService.get: the decoded entry; None on a miss, when redis.get
\* raises and when the bytes are not JSON
get(store, key, store_ok) ==
    IF ~store_ok THEN CacheOutcome(PyNone, FALSE, store)
    ELSE IF store[key] = NoValue THEN CacheOutcome(PyNone, FALSE, store)
    ELSE IF "json" \in DOMAIN store[key] THEN CacheOutcome(store[key].json, FALSE, store)
    ELSE CacheOutcome(PyNone, FALSE, store)

\* CacheService.set: True after setex, False when setex raises
set(store, key, value, store_ok) ==
    IF store_ok
    THEN CacheOutcome(PyBool(TRUE), FALSE, [store EXCEPT ![key] = json_dumps(value)])
    ELSE CacheOutcome(PyBool(FALSE), FALSE, store)

\* CacheService.delete: the number of keys redis removed, False when
\* redis.delete raises
delete(store, key, store_ok) ==
    IF store_ok
    THEN CacheOutcome(PyInt(IF store[key] # NoValue THEN 1 ELSE 0), FALSE,
                      [store EXCEPT ![key] = NoValue])
    ELSE CacheOutcome(PyBool(FALSE), FALSE, store)

\* CacheService.delete_pattern: the number of matching keys removed, 0 when
\* none matches and when redis raises
delete_pattern(store, pattern, store_ok) ==
    LET keys == redis_keys(store, pattern) IN
    IF store_ok /\ keys # {}
    THEN CacheOutcome(PyInt(Cardinality(keys)), FALSE,
                      [k \in DOMAIN store |-> IF k \in keys THEN NoValue ELSE store[k]])
    ELSE CacheOutcome(PyInt(0), FALSE, store)

\* `if cached_result:` in cache_response
Truthy(value) == value.type \notin {"None"} /\ value # PyBool(FALSE) /\ value # PyInt(0)

\* the view get_databases: the rows with is_active = True
get_databases(rows, active) == ListingResponse({t \in rows : active[t]})

\* cache_response's wrapper around a view: the cached value when there is
\* one, otherwise the view's result, which is then stored under the key
cache_response(store, func_name, request, result) ==
    LET cache_key == _generate_cache_key(func_name, request)
        cached_result == get(store, cache_key, TRUE).returned
    IN IF Truthy(cached_result)
       THEN [served |-> cached_result, source |-> "cache", key |-> cache_key,
             store |-> store]
       ELSE [served |-> result, source |-> "view", key |-> cache_key,
             store |-> set(store, cache_key, result, TRUE).store]

NoCacheResult == [op |-> "none"]
NoHttpResult == [op |-> "none"]

(***************************************************************************)
(* On-demand analysis jobs: async_processing.py (AsyncTaskManager)         *)
(***************************************************************************)
\* the uuid4 values start_database_analysis draws, in the order drawn
TaskIds == {1, 2}

NoTask == [status |-> "absent"]

NewTaskInfo_StartsAtTen(task_id, database_id) ==
    [id |-> task_id, database_id |-> database_id, status |-> "pending", progress |-> 10,
     completed_at |-> "None", result |-> "None", error |-> "None"]

\* lines 15-24: the task_info a new task starts with
NewTaskInfo(task_id, database_id) ==
    [id |-> task_id, database_id |-> database_id, status |-> "pending", progress |-> 0,
     completed_at |-> "None", result |-> "None", error |-> "None"]

\* the positions of _run_database_analysis at which another thread can run,
\* in order: before line 46, 47, 51, 54 and 58
RunSteps == <<"set_running", "set_10", "set_50", "set_80", "complete">>

StepAfter_RepeatsTheWork(pc) ==
    CASE pc = "set_running" -> "set_10"
      [] pc = "set_10" -> "set_50"
      [] pc = "set_50" -> "set_80"
      [] pc = "set_80" -> "set_50"
      [] pc = "complete" -> "done"

StepAfter(pc) ==
    CASE pc = "set_running" -> "set_10"
      [] pc = "set_10" -> "set_50"
      [] pc = "set_50" -> "set_80"
      [] pc = "set_80" -> "complete"
      [] pc = "complete" -> "done"

RunUpdate_CompletesEarly(info, pc) ==
    CASE pc = "set_running" -> [info EXCEPT !.status = "running"]
      [] pc = "set_10" -> [info EXCEPT !.progress = 10]
      [] pc = "set_50" -> [info EXCEPT !.progress = 50]
      [] pc = "set_80" -> [info EXCEPT !.status = "completed", !.progress = 80]
      [] pc = "complete" -> [info EXCEPT !.status = "completed", !.progress = 100,
                                         !.completed_at = "utcnow", !.result = "result"]

\* the assignment _run_database_analysis makes at a position
RunUpdate(info, pc) ==
    CASE pc = "set_running" -> [info EXCEPT !.status = "running"]
      [] pc = "set_10" -> [info EXCEPT !.progress = 10]
      [] pc = "set_50" -> [info EXCEPT !.progress = 50]
      [] pc = "set_80" -> [info EXCEPT !.progress = 80]
      [] pc = "complete" -> [info EXCEPT !.status = "completed", !.progress = 100,
                                         !.completed_at = "utcnow", !.result = "result"]

FailedUpdate_ResetsProgress(info) ==
    [info EXCEPT !.status = "failed", !.progress = 0, !.completed_at = "utcnow",
                 !.error = "str(e)"]

\* lines 70-75: the update of the except branch
FailedUpdate(info) ==
    [info EXCEPT !.status = "failed", !.completed_at = "utcnow", !.error = "str(e)"]

AsyncFrame ==
    UNCHANGED <<varsClock, varsTargets, varsPools, varsCollect, varsJobs, varsQS, varsCT,
                varsML, varsMon, varsApi, varsOps, varsBroker, varsPass>>

\* start_database_analysis: register the task and start its thread
start_database_analysis(database_id) ==
    \E task_id \in TaskIds :
        /\ tasks[task_id] = NoTask
        /\ \A earlier \in TaskIds : earlier < task_id => tasks[earlier] # NoTask
        /\ tasks' = [tasks EXCEPT ![task_id] = NewTaskInfo(task_id, database_id)]
        /\ task_pc' = [task_pc EXCEPT ![task_id] = "set_running"]
        /\ UNCHANGED polls
        /\ AsyncFrame

\* one assignment of the thread running _run_database_analysis(task_id, ...)
_run_database_analysis(task_id) ==
    /\ task_pc[task_id] \in {RunSteps[i] : i \in 1..Len(RunSteps)}
    /\ tasks' = [tasks EXCEPT ![task_id] = RunUpdate(@, task_pc[task_id])]
    /\ task_pc' = [task_pc EXCEPT ![task_id] = StepAfter(@)]
    /\ UNCHANGED polls
    /\ AsyncFrame

\* the positions at which the analysis itself runs (the sleeps of lines 50,
\* 53 and 57); the two item assignments of lines 46-47 before them are made
\* on the entry line 26 has stored and cannot raise
WorkSteps == {"set_50", "set_80", "complete"}

\* an exception inside the try block of _run_database_analysis
RunRaises(task_id) ==
    /\ task_pc[task_id] \in WorkSteps
    /\ tasks' = [tasks EXCEPT ![task_id] = FailedUpdate(@)]
    /\ task_pc' = [task_pc EXCEPT ![task_id] = "done"]
    /\ UNCHANGED polls
    /\ AsyncFrame

\* the calls of get_task_status so far
RECURSIVE PollsMade(_, _)
PollsMade(made, ids) ==
    IF ids = {} THEN 0
    ELSE LET id == CHOOSE x \in ids : TRUE
         IN Len(made[id]) + PollsMade(made, ids \ {id})

\* what the caller of get_task_status gets for an id without an entry
TaskNotFound == [raised |-> "ValueError"]

get_task_status_CreatesRecord(task_id) ==
    /\ PollsMade(polls, TaskIds) < MaxPolls
    /\ polls' = [polls EXCEPT ![task_id] =
                    Append(@, IF tasks[task_id] = NoTask THEN TaskNotFound ELSE tasks[task_id])]
    /\ tasks' = [tasks EXCEPT ![task_id] =
                    IF @ = NoTask THEN NewTaskInfo(task_id, NoTarget) ELSE @]
    /\ UNCHANGED task_pc
    /\ AsyncFrame

\* get_task_status(task_id): the entry of the id as it is stored at the
\* time of the call, or ValueError when tasks.get finds none
get_task_status(task_id) ==
    /\ PollsMade(polls, TaskIds) < MaxPolls
    /\ polls' = [polls EXCEPT ![task_id] =
                    Append(@, IF tasks[task_id] = NoTask THEN TaskNotFound ELSE tasks[task_id])]
    /\ UNCHANGED <<tasks, task_pc>>
    /\ AsyncFrame

StartAnalysis == \E database_id \in Targets : start_database_analysis(database_id)
RunAnalysisStep == \E task_id \in TaskIds : _run_database_analysis(task_id)
RunAnalysisRaises == \E task_id \in TaskIds : RunRaises(task_id)
PollTask == \E task_id \in TaskIds : get_task_status(task_id)

(***************************************************************************)
(* Idle values of the state a specification does not exercise              *)
(***************************************************************************)
IdleClock == now = 0 /\ ticks = 0

IdleTargets ==
    /\ is_active = [t \in Targets |-> TRUE]
    /\ connection_status = [t \in Targets |-> "unknown"]
    /\ last_connected = [t \in Targets |-> NoTime]

IdlePools ==
    /\ connection_pools = [t \in Targets |-> NoPool]
    /\ pools_created = {}

IdleCollect ==
    /\ performance_metrics = [t \in Targets |-> << >>]
    /\ cm_result = [status |-> "none", db_id |-> NoTarget, reason |-> "none"]

IdleJobs ==
    /\ job_pc = << >>
    /\ job_db = << >>
    /\ job_pool = << >>
    /\ job_record = << >>

IdleQS ==
    /\ query_statistics = [t \in Targets |-> [h \in QueryHashes |-> << >>]]
    /\ qs_result = [status |-> "none", db_id |-> NoTarget, stats |-> << >>,
                    updated |-> 0, new |-> 0]

IdleCT ==
    /\ ct_mean = 0
    /\ ct_update = "none"
    /\ ct_insert = "none"

NoMonResult == [op |-> "none"]

IdleMon ==
    /\ closed_pools = {}
    /\ mon_result = NoMonResult

IdleApi ==
    /\ redis = [k \in RedisKeys |-> NoValue]
    /\ cache_result = NoCacheResult
    /\ db_rows = {}
    /\ http_result = NoHttpResult

IdleAsync ==
    /\ tasks = [task_id \in TaskIds |-> NoTask]
    /\ task_pc = [task_id \in TaskIds |-> "none"]
    /\ polls = [task_id \in TaskIds |-> << >>]

IdleOps ==
    /\ recommendations = << >>

NoSchedResult == [status |-> "none"]

IdleBroker ==
    /\ auto_monitoring = [t \in Targets |-> TRUE]
    /\ queue = {}
    /\ runs = {}
    /\ beats = 0
    /\ sched_result = NoSchedResult

NoPass == [state |-> "idle"]

\* the workers that can run a pass at the same time
PassIds == 1..MaxPasses

\* outside a pass the session holds no row
NoSession == [t \in Targets |-> [h \in QueryHashes |-> << >>]]

IdlePass ==
    /\ pass = NoPass
    /\ session_rows = NoSession
    /\ seen_rows = << >>
    /\ passes = [p \in PassIds |-> NoPass]

IdleExt == IdleMon /\ IdleApi /\ IdleAsync /\ IdleOps /\ IdleBroker /\ IdlePass

(***************************************************************************)
(* SpecQS: sequential query-statistics passes                              *)
(***************************************************************************)
\* target 1 is active and has a pool; target 2 was collected earlier and is
\* now either deactivated or without a pool in this process
InitQS ==
    /\ IdleExt
    /\ IdleClock /\ IdleCollect /\ IdleJobs /\ IdleCT /\ IdleML
    /\ \/ /\ is_active = [t \in Targets |-> t = 1]
          /\ connection_pools = [t \in Targets |-> t]
       \/ /\ is_active = [t \in Targets |-> TRUE]
          /\ connection_pools = [t \in Targets |-> IF t = 1 THEN 1 ELSE NoPool]
    /\ pools_created = {[id |-> t, db_id |-> t] : t \in {u \in Targets : connection_pools[u] # NoPool}}
    /\ connection_status = [t \in Targets |-> "unknown"]
    /\ last_connected = [t \in Targets |-> NoTime]
    /\ query_statistics =
          [t \in Targets |-> [h \in QueryHashes |->
              IF t = 2 /\ h = EarlierRow.query_hash THEN <<EarlierRow>> ELSE << >>]]
    /\ qs_result = [status |-> "none", db_id |-> NoTarget, stats |-> << >>,
                    updated |-> 0, new |-> 0]

NextQS == CollectQueryStats \/ TickQS

SpecQS == InitQS /\ [][NextQS]_vars

(***************************************************************************)
(* SpecPass: one pass of collect_query_statistics_task taken assignment by *)
(* assignment, with other database sessions reading the table meanwhile.   *)
(* The pass works on the objects of its own session; the database shows    *)
(* other sessions committed rows only                                      *)
(***************************************************************************)
MaxReads == 2

\* the attributes the update branch assigns, in the order of lines 194-213
UpdateFields ==
    <<"calls", "total_time", "mean_time", "min_time", "max_time", "rows_returned",
      "shared_blks_hit", "shared_blks_read", "shared_blks_written", "last_seen",
      "performance_category">>

\* existing after the first k assignments of the update branch
AssignedRow(existing, stat, t, k) ==
    [f \in DOMAIN existing |->
        IF \E i \in 1..k : UpdateFields[i] = f
        THEN UpdateRow(existing, stat, t)[f]
        ELSE existing[f]]

VisibleRows_Uncommitted(db_id, query_hash) == session_rows[db_id][query_hash]

\* what a SELECT of another session returns for a (target, hash)
VisibleRows(db_id, query_hash) == query_statistics[db_id][query_hash]

PassFrame ==
    UNCHANGED <<varsClock, varsTargets, varsPools, varsCollect, varsJobs, varsCT, varsML,
                varsMon, varsApi, varsAsync, varsOps, varsBroker>>

\* lines 178-183: the task fetches the statistics and enters the loop
BeginPass(db_id, rows) ==
    /\ pass.state = "idle"
    /\ is_active[db_id]
    /\ rows # << >>
    /\ pass' = [state |-> "loop", db_id |-> db_id,
                stats |-> collect_query_statistics(connection_pools, db_id, TRUE, TRUE, rows),
                iter |-> 1, assigned |-> 0, before |-> query_statistics, at |-> now]
    /\ session_rows' = query_statistics
    /\ UNCHANGED <<seen_rows, passes, varsQS>>
    /\ PassFrame

\* one statement of the loop body: the next assignment to existing, or the
\* construction and session.add of a new row
PassStep ==
    /\ pass.state = "loop"
    /\ pass.iter <= Len(pass.stats)
    /\ LET stat == pass.stats[pass.iter]
           rows == session_rows[pass.db_id][stat.query_hash]
           original == pass.before[pass.db_id][stat.query_hash]
       IN IF rows # << >>
          THEN /\ session_rows' =
                     [session_rows EXCEPT ![pass.db_id][stat.query_hash] =
                         <<AssignedRow(Head(rows), stat, pass.at, pass.assigned + 1)>>
                             \o Tail(rows)]
               /\ pass' = IF pass.assigned + 1 = Len(UpdateFields)
                          THEN [pass EXCEPT !.iter = @ + 1, !.assigned = 0]
                          ELSE [pass EXCEPT !.assigned = @ + 1]
          ELSE /\ session_rows' =
                     [session_rows EXCEPT ![pass.db_id][stat.query_hash] =
                         Append(rows, InsertRow(pass.db_id, stat, pass.at))]
               /\ pass' = [pass EXCEPT !.iter = @ + 1]
    /\ UNCHANGED <<seen_rows, passes, varsQS>>
    /\ PassFrame

\* line 247: db.session.commit(), or its failure and the error return
CommitPass(commit_ok) ==
    /\ pass.state = "loop"
    /\ pass.iter = Len(pass.stats) + 1
    /\ pass' = [pass EXCEPT !.state = IF commit_ok THEN "committed" ELSE "rolled_back"]
    /\ IF commit_ok
       THEN /\ query_statistics' = session_rows
            /\ qs_result' = QueryStatsResult(pass.db_id, "success", "rows",
                                 statements_run(connection_pools, pass.db_id, TRUE, TRUE),
                                 pass.stats,
                                 CountUpdated(pass.before, pass.db_id, pass.stats, pass.at),
                                 session_rows)
            /\ UNCHANGED session_rows
       ELSE /\ session_rows' = NoSession
            /\ qs_result' = QueryStatsResult(pass.db_id, "error", "commit_error",
                                 statements_run(connection_pools, pass.db_id, TRUE, TRUE),
                                 << >>, 0, query_statistics)
            /\ UNCHANGED query_statistics
    /\ UNCHANGED <<seen_rows, passes>>
    /\ PassFrame

\* another session selects the rows of a (target, hash)
ReadRows(db_id, query_hash) ==
    /\ Len(seen_rows) < MaxReads
    /\ seen_rows' = Append(seen_rows,
                           [db_id |-> db_id, query_hash |-> query_hash,
                            rows |-> VisibleRows(db_id, query_hash), during |-> pass.state])
    /\ UNCHANGED <<pass, session_rows, passes, varsQS>>
    /\ PassFrame

\* the pass is that of the target with a stored row
StartPass == \E rows \in PassRows : BeginPass(EarlierRow.database_id, rows)
EndPass == \E commit_ok \in BOOLEAN : CommitPass(commit_ok)
Select == \E db_id \in Targets, query_hash \in QueryHashes : ReadRows(db_id, query_hash)

\* both targets are active and have a pool; target 2 has a row of an
\* earlier pass
InitPass ==
    /\ IdleClock /\ IdleTargets /\ IdleCollect /\ IdleJobs /\ IdleCT /\ IdleML
    /\ IdleMon /\ IdleApi /\ IdleAsync /\ IdleOps /\ IdleBroker
    /\ connection_pools = [t \in Targets |-> t]
    /\ pools_created = {[id |-> t, db_id |-> t] : t \in Targets}
    /\ query_statistics =
          [t \in Targets |-> [h \in QueryHashes |->
              IF t = 2 /\ h = EarlierRow.query_hash THEN <<EarlierRow>> ELSE << >>]]
    /\ qs_result = [status |-> "none", db_id |-> NoTarget, stats |-> << >>,
                    updated |-> 0, new |-> 0]
    /\ IdlePass

NextPass == StartPass \/ PassStep \/ EndPass \/ Select

SpecPass == InitPass /\ [][NextPass]_vars

(***************************************************************************)
(* SpecTwoPasses: query-statistics passes of one target running side by    *)
(* side, each in its own worker and session.  A pass steps at its look-ups *)
(* (line 188) and at its commit (line 247); a look-up sees the committed   *)
(* rows and what its own session has added                                 *)
(***************************************************************************)
\* the target of the racing passes
RaceTarget == CHOOSE t \in Targets : TRUE

\* the hashes a session has added and not yet committed
Added(pending) == {pending[i].stat.query_hash : i \in {j \in DOMAIN pending : pending[j].kind = "insert"}}

\* lines 188-191: filter_by(database_id, query_hash).first()
Lookup(p, db_id, query_hash) ==
    \/ query_statistics[db_id][query_hash] # << >>
    \/ query_hash \in Added(passes[p].pending)

\* the flush of a session at its commit: the updates and inserts in the
\* order the loop made them
RECURSIVE Flush(_, _, _, _)
Flush(table, db_id, pending, t) ==
    IF pending = << >> THEN table
    ELSE LET stat == Head(pending).stat
             rows == table[db_id][stat.query_hash]
             next == IF Head(pending).kind = "insert"
                     THEN [table EXCEPT ![db_id][stat.query_hash] =
                              Append(rows, InsertRow(db_id, stat, t))]
                     ELSE [table EXCEPT ![db_id][stat.query_hash] =
                              <<UpdateRow(Head(rows), stat, t)>> \o Tail(rows)]
         IN Flush(next, db_id, Tail(pending), t)

TwoPassFrame ==
    UNCHANGED <<varsClock, varsTargets, varsPools, varsCollect, varsJobs, varsCT, varsML,
                varsMon, varsApi, varsAsync, varsOps, varsBroker, pass, session_rows, seen_rows>>

\* a worker starts collect_query_statistics_task and fetches the statistics
BeginRacingPass(p, rows) ==
    /\ passes[p].state = "idle"
    /\ rows # << >>
    /\ passes' = [passes EXCEPT ![p] =
                     [state |-> "loop", db_id |-> RaceTarget,
                      stats |-> collect_query_statistics(connection_pools, RaceTarget, TRUE,
                                                         TRUE, rows),
                      iter |-> 1, pending |-> << >>, at |-> now]]
    /\ UNCHANGED varsQS
    /\ TwoPassFrame

\* one iteration of the loop: the look-up, then the assignments to the row
\* found or the session.add of a new one
RacingIteration(p) ==
    /\ passes[p].state = "loop"
    /\ passes[p].iter <= Len(passes[p].stats)
    /\ LET stat == passes[p].stats[passes[p].iter]
           kind == IF Lookup(p, passes[p].db_id, stat.query_hash) THEN "update" ELSE "insert"
       IN passes' = [passes EXCEPT ![p].iter = @ + 1,
                                   ![p].pending = Append(@, [kind |-> kind, stat |-> stat])]
    /\ UNCHANGED varsQS
    /\ TwoPassFrame

\* line 247: the commit of the pass
RacingCommit(p) ==
    /\ passes[p].state = "loop"
    /\ passes[p].iter = Len(passes[p].stats) + 1
    /\ LET table == Flush(query_statistics, passes[p].db_id, passes[p].pending, passes[p].at)
       IN /\ query_statistics' = table
          /\ qs_result' = QueryStatsResult(passes[p].db_id, "success", "rows",
                               statements_run(connection_pools, passes[p].db_id, TRUE, TRUE),
                               passes[p].stats,
                               Cardinality({i \in DOMAIN passes[p].pending :
                                               passes[p].pending[i].kind = "update"}),
                               table)
    /\ passes' = [passes EXCEPT ![p] = [@ EXCEPT !.state = "committed"]]
    /\ TwoPassFrame

StartRacingPass == \E p \in PassIds, rows \in PassRows : BeginRacingPass(p, rows)
RacingLookup == \E p \in PassIds : RacingIteration(p)
RacingEnd == \E p \in PassIds : RacingCommit(p)

\* the target is active, has a pool and no statistics yet
InitTwoPasses ==
    /\ IdleClock /\ IdleTargets /\ IdleCollect /\ IdleJobs /\ IdleCT /\ IdleML
    /\ IdleMon /\ IdleApi /\ IdleAsync /\ IdleOps /\ IdleBroker /\ IdlePass
    /\ connection_pools = [t \in Targets |-> t]
    /\ pools_created = {[id |-> t, db_id |-> t] : t \in Targets}
    /\ query_statistics = [t \in Targets |-> [h \in QueryHashes |-> << >>]]
    /\ qs_result = [status |-> "none", db_id |-> NoTarget, stats |-> << >>,
                    updated |-> 0, new |-> 0]

NextTwoPasses == StartRacingPass \/ RacingLookup \/ RacingEnd

SpecTwoPasses == InitTwoPasses /\ [][NextTwoPasses]_vars

(***************************************************************************)
(* SpecCategory: the two classification paths applied to one mean_time     *)
(***************************************************************************)
CategoryStat == StatDict([query |-> "SELECT a", calls |-> 3, mean_time |-> ct_mean])

\* lines 194-213: an existing row is refreshed from the stat
ClassifyOnUpdate ==
    /\ ct_update = "none"
    /\ ct_update' = UpdateRow(EarlierRow, CategoryStat, 0).performance_category
    /\ UNCHANGED <<ct_mean, ct_insert>>
    /\ UNCHANGED <<varsClock, varsTargets, varsPools, varsCollect, varsJobs, varsQS, varsML,
                   varsExt>>

\* lines 218-242: a new row is built from the stat
ClassifyOnInsert ==
    /\ ct_insert = "none"
    /\ ct_insert' = InsertRow(1, CategoryStat, 0).performance_category
    /\ UNCHANGED <<ct_mean, ct_update>>
    /\ UNCHANGED <<varsClock, varsTargets, varsPools, varsCollect, varsJobs, varsQS, varsML,
                   varsExt>>

InitCategory ==
    /\ IdleExt
    /\ IdleClock /\ IdleTargets /\ IdlePools /\ IdleCollect /\ IdleJobs /\ IdleQS /\ IdleML
    /\ ct_mean \in 0..MaxMeanTime
    /\ ct_update = "none"
    /\ ct_insert = "none"

NextCategory == ClassifyOnUpdate \/ ClassifyOnInsert

SpecCategory == InitCategory /\ [][NextCategory]_vars

(***************************************************************************)
(* Connection pools and metrics collection: PostgreSQLMonitor and          *)
(* celery_tasks.collect_metrics_task                                       *)
(***************************************************************************)
PoolsOf(created, db_id) == {p \in created : p.db_id = db_id}

\* asyncpg.create_pool returned a pool: a fresh pool object
NewPoolId(created) == Cardinality(created) + 1

create_connection_pool_StoresOnFailure(pools, created, db_id, pool_ok) ==
    [ok |-> pool_ok, attempts |-> 1,
     pools |-> [pools EXCEPT ![db_id] = NewPoolId(created)],
     created |-> created \cup {[id |-> NewPoolId(created), db_id |-> db_id]}]

\* create_connection_pool: one call of asyncpg.create_pool; on success the
\* pool is stored under db_id (replacing whatever was there) and True is
\* returned, on failure the map is left alone and False is returned
create_connection_pool(pools, created, db_id, pool_ok) ==
    IF pool_ok
    THEN [ok |-> TRUE, attempts |-> 1,
          pools |-> [pools EXCEPT ![db_id] = NewPoolId(created)],
          created |-> created \cup {[id |-> NewPoolId(created), db_id |-> db_id]}]
    ELSE [ok |-> FALSE, attempts |-> 1, pools |-> pools, created |-> created]

AcquirePool_NoCheck(pools, created, db_id, pool_ok) ==
    create_connection_pool(pools, created, db_id, pool_ok)

\* collect_metrics_task lines 83-90: create the pool only when the map has
\* none for db_id
AcquirePool(pools, created, db_id, pool_ok) ==
    IF pools[db_id] = NoPool
    THEN create_connection_pool(pools, created, db_id, pool_ok)
    ELSE [ok |-> TRUE, attempts |-> 0, pools |-> pools, created |-> created]

close_connection_pool_KeepsEntry(pools, closed, db_id) ==
    [pools |-> pools, closed |-> closed \cup ({pools[db_id]} \ {NoPool})]

\* close_connection_pool: when db_id has a pool, await its close() and delete
\* the map entry; otherwise nothing
close_connection_pool(pools, closed, db_id) ==
    IF pools[db_id] # NoPool
    THEN [pools |-> [pools EXCEPT ![db_id] = NoPool],
          closed |-> closed \cup {pools[db_id]}]
    ELSE [pools |-> pools, closed |-> closed]

\* the introspection queries of collect_performance_metrics in the order in
\* which they are awaited, with the keys each one adds to the metrics dict
IntrospectionQueries ==
    <<{"active_connections", "idle_connections", "max_connections"},
      {"total_transactions", "total_tuples", "cache_hit_ratio"},
      {"locks_count", "waiting_locks"},
      {"database_size"},
      {"buffer_cache_hit_ratio"}>>

NoFailure == 0
FailingQueries == 1..Len(IntrospectionQueries)

\* the keys in the local dict metrics after the first k queries have returned
RECURSIVE Gathered(_)
Gathered(k) == IF k = 0 THEN {} ELSE Gathered(k - 1) \cup IntrospectionQueries[k]

collect_performance_metrics_ReturnsPartial(pools, db_id, failing_query) ==
    IF pools[db_id] = NoPool
    THEN [returned |-> "None", fields |-> {}, queries_run |-> 0, log |-> "no_pool"]
    ELSE IF failing_query # NoFailure
    THEN [returned |-> "metrics", fields |-> Gathered(failing_query - 1),
          queries_run |-> failing_query, log |-> "failed"]
    ELSE [returned |-> "metrics",
          fields |-> Gathered(Len(IntrospectionQueries)) \cup {"timestamp"},
          queries_run |-> Len(IntrospectionQueries), log |-> "none"]

\* collect_performance_metrics: None without a pool (no query is run), None
\* when one of the introspection queries raises (the queries after it are
\* not run and the dict gathered so far is dropped), otherwise the dict
collect_performance_metrics(pools, db_id, failing_query) ==
    IF pools[db_id] = NoPool
    THEN [returned |-> "None", fields |-> {}, queries_run |-> 0, log |-> "no_pool"]
    ELSE IF failing_query # NoFailure
    THEN [returned |-> "None", fields |-> {},
          queries_run |-> failing_query, log |-> "failed"]
    ELSE [returned |-> "metrics",
          fields |-> Gathered(Len(IntrospectionQueries)) \cup {"timestamp"},
          queries_run |-> Len(IntrospectionQueries), log |-> "none"]

AddSample_ForEveryTarget(table, db_id, timestamp) ==
    [t \in DOMAIN table |-> Append(table[t], timestamp)]

\* lines 102-128: one PerformanceMetric row of db_id is added and committed
AddSample(table, db_id, timestamp) == [table EXCEPT ![db_id] = Append(@, timestamp)]

\* where one run of collect_metrics_task can fail
CollectOutcomes ==
    {"ok", "pool_failed", "query_failed", "commit_failed", "setex_failed", "delete_failed"}

\* the samples and the connection_status of db_id, none for an id without
\* a row
RowsOf(table, db_id) == IF Found(db_id) THEN table[db_id] ELSE << >>
StatusOf(conn_status, db_id) == IF Found(db_id) THEN conn_status[db_id] ELSE "missing"

\* the value collect_metrics_task returns, with what the run did
CollectResult(db_id, status, reason, raised, acq, collected, pools, samples, conn_status) ==
    [status |-> status, db_id |-> db_id, reason |-> reason, raised |-> raised,
     pool_attempts |-> acq.attempts, queries_run |-> collected.queries_run,
     pools_before |-> connection_pools, pools_after |-> pools,
     samples_before |-> Len(RowsOf(performance_metrics, db_id)),
     samples_after |-> Len(RowsOf(samples, db_id)),
     status_before |-> StatusOf(connection_status, db_id),
     status_after |-> StatusOf(conn_status, db_id)]

NotAcquired == [ok |-> FALSE, attempts |-> 0]
NotCollected == [returned |-> "None", fields |-> {}, queries_run |-> 0, log |-> "none"]

\* one run of collect_metrics_task(db_id) in which outcome says where, if
\* anywhere, the environment fails
collect_metrics_run(db_id, outcome, failing_query) ==
      /\ (outcome = "query_failed") <=> (failing_query # NoFailure)
      /\ IF Found(db_id)
         THEN /\ outcome = "pool_failed" => connection_pools[db_id] = NoPool
              /\ outcome \in {"ok", "setex_failed", "delete_failed"}
                    => Len(performance_metrics[db_id]) < MaxSamples
         ELSE outcome = "ok"
      /\ IF DatabaseInactive(db_id)
         THEN /\ cm_result' = CollectResult(db_id, "skipped", "database_inactive", "none",
                                  NotAcquired, NotCollected, connection_pools,
                                  performance_metrics, connection_status)
              /\ UNCHANGED <<varsPools, performance_metrics, connection_status, last_connected>>
         ELSE LET acq == AcquirePool(connection_pools, pools_created, db_id,
                                     outcome # "pool_failed")
                  metrics == IF acq.ok
                             THEN collect_performance_metrics(acq.pools, db_id, failing_query)
                             ELSE NotCollected
                  stored == AddSample(performance_metrics, db_id, now)
                  connected == [connection_status EXCEPT ![db_id] = "connected"]
                  refreshed == [last_connected EXCEPT ![db_id] = now]
                  error == [connection_status EXCEPT ![db_id] = "error"]
              IN
              /\ connection_pools' = acq.pools
              /\ pools_created' = acq.created
              /\ IF ~acq.ok
                 THEN \* line 90
                      /\ cm_result' = CollectResult(db_id, "error", "connection_pool_failed",
                                          "none", acq, metrics, acq.pools,
                                          performance_metrics, connection_status)
                      /\ UNCHANGED <<performance_metrics, connection_status, last_connected>>
                 ELSE IF metrics.returned = "None"
                 THEN \* line 99
                      /\ cm_result' = CollectResult(db_id, "error", "metrics_collection_failed",
                                          "none", acq, metrics, acq.pools,
                                          performance_metrics, connection_status)
                      /\ UNCHANGED <<performance_metrics, connection_status, last_connected>>
                 ELSE IF outcome = "commit_failed"
                 THEN \* db.session.commit() raises: the except branch tries to
                      \* store status 'error' through the same session
                      /\ connection_status' \in {connection_status, error}
                      /\ cm_result' = CollectResult(db_id, "error", "exception", "commit",
                                          acq, metrics, acq.pools, performance_metrics,
                                          connection_status')
                      /\ UNCHANGED <<performance_metrics, last_connected>>
                 ELSE /\ performance_metrics' = stored
                      /\ last_connected' = refreshed
                      /\ IF outcome \in {"setex_failed", "delete_failed"}
                         THEN \* redis_client.setex (line 136) or redis_client.delete
                              \* (line 139) raises after both commits: lines 147-159
                              /\ connection_status' = error
                              /\ cm_result' = CollectResult(db_id, "error", "exception",
                                                  IF outcome = "setex_failed"
                                                  THEN "setex" ELSE "delete",
                                                  acq, metrics, acq.pools, stored, error)
                         ELSE /\ connection_status' = connected
                              /\ cm_result' = CollectResult(db_id, "success", "none", "none",
                                                  acq, metrics, acq.pools, stored, connected)
      /\ UNCHANGED <<varsClock, is_active, varsJobs, varsQS, varsCT, varsML,
                     varsMon, varsApi, varsAsync, varsOps, varsPass, auto_monitoring, beats,
                     sched_result>>

\* collect_metrics_task(db_id), called directly
collect_metrics_task(db_id) ==
    /\ \E outcome \in CollectOutcomes, failing_query \in {NoFailure} \cup FailingQueries :
          collect_metrics_run(db_id, outcome, failing_query)
    /\ UNCHANGED <<queue, runs>>

CollectMetrics == \E db_id \in Targets : collect_metrics_task(db_id)

TickCollect ==
    /\ AdvanceClock(1, MaxCollectTicks)
    /\ UNCHANGED <<varsTargets, varsPools, varsCollect, varsJobs, varsQS, varsCT, varsExt, varsML>>

\* the monitor is constructed with an empty pool map; target 1 is active,
\* target 2 is active or deactivated
InitCollect ==
    /\ IdleExt
    /\ IdleClock /\ IdlePools /\ IdleCollect /\ IdleJobs /\ IdleQS /\ IdleCT /\ IdleML
    /\ is_active \in {f \in [Targets -> BOOLEAN] : f[1]}
    /\ connection_status = [t \in Targets |-> "unknown"]
    /\ last_connected = [t \in Targets |-> NoTime]

NextCollect == CollectMetrics \/ TickCollect

SpecCollect == InitCollect /\ [][NextCollect]_vars

(***************************************************************************)
(* SpecMonitor: collection jobs, pool releases and direct collector calls, *)
(* one after the other in one process                                      *)
(***************************************************************************)
MonitorFrame ==
    UNCHANGED <<varsClock, varsTargets, varsCollect, varsJobs, varsQS, varsCT, varsML,
                varsApi, varsAsync, varsOps, varsBroker, varsPass>>

\* await postgresql_monitor.close_connection_pool(db_id)
ReleasePool ==
    \E db_id \in Targets :
        LET r == close_connection_pool(connection_pools, closed_pools, db_id) IN
        /\ Cardinality(pools_created) < MaxPoolsCreated
        /\ connection_pools' = r.pools
        /\ closed_pools' = r.closed
        /\ mon_result' = [op |-> "close_connection_pool", db_id |-> db_id,
                          pools_before |-> connection_pools, pools_after |-> r.pools,
                          closed_before |-> closed_pools, closed_after |-> r.closed]
        /\ UNCHANGED pools_created
        /\ MonitorFrame

\* await postgresql_monitor.collect_performance_metrics(db_id)
CollectPerformanceMetrics ==
    \E db_id \in Targets, failing_query \in {NoFailure} \cup FailingQueries :
        LET r == collect_performance_metrics(connection_pools, db_id, failing_query) IN
        /\ mon_result' = [op |-> "collect_performance_metrics", db_id |-> db_id,
                          pools_before |-> connection_pools,
                          pools_after |-> connection_pools,
                          returned |-> r.returned, fields |-> r.fields,
                          queries_run |-> r.queries_run, log |-> r.log]
        /\ UNCHANGED <<varsPools, closed_pools>>
        /\ MonitorFrame

\* the scheduled collection job of target 1
CollectTarget == collect_metrics_task(1)

\* both targets are active; target 2 got its pool from an earlier job whose
\* collection failed, target 1 has not been collected yet
InitMonitor ==
    /\ IdleClock /\ IdleTargets /\ IdleCollect /\ IdleJobs /\ IdleQS /\ IdleCT /\ IdleML
    /\ IdleExt
    /\ connection_pools = [t \in Targets |-> IF t = 2 THEN 1 ELSE NoPool]
    /\ pools_created = {[id |-> 1, db_id |-> 2]}

NextMonitor == CollectTarget \/ ReleasePool \/ CollectPerformanceMetrics

SpecMonitor == InitMonitor /\ [][NextMonitor]_vars

(***************************************************************************)
(* SpecApi: calls of the CacheService, listing reads and target creations  *)
(* through the HTTP API, and entries running out of their time to live     *)
(***************************************************************************)
ApiFrame ==
    UNCHANGED <<varsClock, varsTargets, varsPools, varsCollect, varsJobs, varsQS, varsCT,
                varsML, varsMon, varsAsync, varsOps, varsBroker, varsPass>>

CacheValues == {ListingResponse({1}), [type |-> "dict", total |-> 1]}

\* one call of a CacheService method; store_ok is whether Redis answers
CacheCall(op, key, store_ok, r) ==
    /\ redis' = r.store
    /\ cache_result' = [op |-> op, key |-> key, store_ok |-> store_ok,
                        returned |-> r.returned, raised |-> r.raised,
                        store_changed |-> r.store # redis]
    /\ UNCHANGED <<db_rows, http_result>>
    /\ ApiFrame

CacheGet ==
    \E key \in RedisKeys, store_ok \in BOOLEAN :
        CacheCall("get", key, store_ok, get(redis, key, store_ok))

CacheSet ==
    \E key \in MetricsKeys, value \in CacheValues, store_ok \in BOOLEAN :
        CacheCall("set", key, store_ok, set(redis, key, value, store_ok))

CacheDelete ==
    \E key \in RedisKeys, store_ok \in BOOLEAN :
        CacheCall("delete", key, store_ok, delete(redis, key, store_ok))

CacheDeletePattern ==
    \E pattern \in Patterns, store_ok \in BOOLEAN :
        CacheCall("delete_pattern", pattern, store_ok,
                  delete_pattern(redis, pattern, store_ok))

\* GET /api/databases: the listing view behind cache_response
GetDatabases ==
    \E request \in ListingRequests :
        LET r == cache_response(redis, "get_databases", request,
                                get_databases(db_rows, is_active))
        IN /\ redis' = r.store
           /\ http_result' = [op |-> "get_databases", key |-> r.key,
                              source |-> r.source, served |-> r.served,
                              rows |-> db_rows]
           /\ UNCHANGED <<cache_result, db_rows>>
           /\ ApiFrame

\* the id the table gives the next inserted row
NextId(rows) == Cardinality(rows) + 1

\* POST /api/databases: a payload without a required field is answered with
\* 400; otherwise the row is inserted and committed and the listing cache
\* is invalidated by pattern
create_database_connection(valid) ==
    IF ~valid
    THEN /\ http_result' = [op |-> "create_database_connection", status |-> 400,
                            rows |-> db_rows, listing_keys_left |-> redis_keys(redis, "*")
                                                                     \cap ListingKeys]
         /\ UNCHANGED <<redis, db_rows>>
    ELSE LET r == delete_pattern(redis, ListingPattern, TRUE) IN
         /\ db_rows' = db_rows \cup {NextId(db_rows)}
         /\ redis' = r.store
         /\ http_result' = [op |-> "create_database_connection", status |-> 201,
                            rows |-> db_rows',
                            listing_keys_left |-> redis_keys(r.store, "*") \cap ListingKeys]

CreateDatabaseConnection ==
    /\ db_rows # Targets
    /\ \E valid \in BOOLEAN : create_database_connection(valid)
    /\ UNCHANGED cache_result
    /\ ApiFrame

\* Redis drops an entry whose time to live (setex) has run out
ExpireKey ==
    \E key \in RedisKeys :
        /\ redis[key] # NoValue
        /\ redis' = [redis EXCEPT ![key] = NoValue]
        /\ UNCHANGED <<cache_result, db_rows, http_result>>
        /\ ApiFrame

\* no target has been created yet; a collection job may have left its
\* latest-metrics entry
InitApi ==
    /\ IdleClock /\ IdleTargets /\ IdlePools /\ IdleCollect /\ IdleJobs /\ IdleQS /\ IdleCT
    /\ IdleML /\ IdleMon /\ IdleAsync /\ IdleOps /\ IdleBroker /\ IdlePass
    /\ redis \in {[k \in RedisKeys |-> NoValue],
                  [k \in RedisKeys |-> IF k = "latest_metrics:1" THEN ReprBytes ELSE NoValue]}
    /\ cache_result = NoCacheResult
    /\ db_rows = {}
    /\ http_result = NoHttpResult

NextApi ==
    \/ CacheGet \/ CacheSet \/ CacheDelete \/ CacheDeletePattern
    \/ GetDatabases \/ CreateDatabaseConnection \/ ExpireKey

SpecApi == InitApi /\ [][NextApi]_vars

(***************************************************************************)
(* SpecWrapper: calls of a view through cache_response's wrapper, with a   *)
(* view that may raise and a cache layer that may fail                     *)
(***************************************************************************)
\* one execution of the wrapped function: it returns value or raises
Execution(raises, value) ==
    IF raises THEN [raised |-> TRUE, value |-> PyNone]
    ELSE [raised |-> FALSE, value |-> value]

\* what a call of the wrapper returns or raises, how often it ran the
\* wrapped function, and the store it leaves
Wrapped(ran, source, executions, store) ==
    [served |-> ran.value, raised |-> ran.raised, source |-> source,
     executions |-> executions, store |-> store]

\* wrapper of cache_response: app_ok is whether the key and the cache
\* service can be obtained (lines 56-60), store_ok whether Redis answers;
\* first and second are the first and the second execution of func
wrapper(store, func_name, request, app_ok, store_ok, first, second) ==
    IF ~app_ok
    THEN \* line 69: the handler runs func (line 72)
         Wrapped(first, "fallback", 1, store)
    ELSE LET cache_key == _generate_cache_key(func_name, request)
             cached_result == get(store, cache_key, store_ok).returned
         IN IF Truthy(cached_result)
            THEN Wrapped(Execution(FALSE, cached_result), "cache", 0, store)
            ELSE IF first.raised
            THEN \* line 66 raised inside the try: the handler runs func again
                 Wrapped(second, "fallback", 2, store)
            ELSE Wrapped(first, "view", 1,
                         set(store, cache_key, first.value, store_ok).store)

\* GET /api/databases through the wrapper
CallWrapped ==
    \E request \in ListingRequests, app_ok \in BOOLEAN, store_ok \in BOOLEAN,
       first_raises \in BOOLEAN, second_raises \in BOOLEAN :
        LET listing == get_databases(db_rows, is_active)
            r == wrapper(redis, "get_databases", request, app_ok, store_ok,
                         Execution(first_raises, listing),
                         Execution(second_raises, listing))
        IN /\ redis' = r.store
           /\ http_result' = [op |-> "wrapper", request |-> request, app_ok |-> app_ok,
                              store_ok |-> store_ok, first_raised |-> first_raises,
                              hit |-> app_ok /\ Truthy(get(redis, _generate_cache_key(
                                          "get_databases", request), store_ok).returned),
                              source |-> r.source, served |-> r.served,
                              raised |-> r.raised, executions |-> r.executions]
           /\ UNCHANGED <<cache_result, db_rows>>
           /\ ApiFrame

\* POST /api/databases with a complete payload
CreateTarget ==
    /\ db_rows # Targets
    /\ create_database_connection(TRUE)
    /\ UNCHANGED cache_result
    /\ ApiFrame

NextWrapper == CallWrapped \/ CreateTarget \/ ExpireKey

SpecWrapper == InitApi /\ [][NextWrapper]_vars

(***************************************************************************)
(* SpecAsync: analysis tasks, their worker threads and status polls,       *)
(* interleaved                                                             *)
(***************************************************************************)
\* AsyncTaskManager.__init__: no task yet
InitAsync ==
    /\ IdleClock /\ IdleTargets /\ IdlePools /\ IdleCollect /\ IdleJobs /\ IdleQS /\ IdleCT
    /\ IdleML /\ IdleExt

NextAsync == StartAnalysis \/ RunAnalysisStep \/ RunAnalysisRaises \/ PollTask

SpecAsync == InitAsync /\ [][NextAsync]_vars

(***************************************************************************)
(* SpecThreads: the submissions and the threads alone, and the same under  *)
(* a scheduler that keeps running every thread that has a step to take     *)
(***************************************************************************)
NextThreads == StartAnalysis \/ RunAnalysisStep \/ RunAnalysisRaises

SpecThreads == InitAsync /\ [][NextThreads]_vars

\* the thread started at line 31 takes its next statement whenever it has one
SpecThreadsFair ==
    SpecThreads /\ \A task_id \in TaskIds : WF_vars(_run_database_analysis(task_id))

(***************************************************************************)
(* Periodic scheduling: celery beat sends schedule_monitoring_tasks every  *)
(* minute (celery_tasks.py, beat_schedule); the task sends one message per *)
(* job and target to the broker, a worker receives a message once its eta  *)
(* has come                                                                *)
(***************************************************************************)
MaxBeats == 2

\* crontab(minute='*'), in seconds
BeatPeriod == 60
\* the countdown arguments of the three apply_async calls
MetricsCountdown == 0
StatisticsCountdown == 300
AnalysisCountdown == 600

Message(task, db_id, eta) == [task |-> task, db_id |-> db_id, eta |-> eta]

\* the apply_async calls of one run over the selected targets, in loop order
RECURSIVE ScheduledCalls(_, _)
ScheduledCalls(active_databases, at) ==
    IF active_databases = {} THEN << >>
    ELSE LET db_conn == CHOOSE t \in active_databases : \A u \in active_databases : t <= u
         IN <<Message("collect_metrics_task", db_conn, at + MetricsCountdown),
              Message("collect_query_statistics_task", db_conn, at + StatisticsCountdown),
              Message("analyze_performance_task", db_conn, at + AnalysisCountdown)>>
            \o ScheduledCalls(active_databases \ {db_conn}, at)

Sent(calls) == {calls[i] : i \in DOMAIN calls}

AutoMonitored_SkipsErrored ==
    {t \in Targets : is_active[t] /\ auto_monitoring[t] /\ connection_status[t] # "error"}

\* the filter of schedule_monitoring_tasks
AutoMonitored == {t \in Targets : is_active[t] /\ auto_monitoring[t]}

BrokerFrame ==
    UNCHANGED <<varsClock, varsTargets, varsPools, varsCollect, varsJobs, varsQS, varsCT,
                varsML, varsMon, varsApi, varsAsync, varsOps, varsPass, auto_monitoring>>

\* schedule_monitoring_tasks: three messages per selected target; the call
\* numbered failing_call raises (the broker is unreachable), which ends the
\* loop and the run
schedule_monitoring_tasks(failing_call) ==
    LET calls == ScheduledCalls(AutoMonitored, now)
        failed_for == IF failing_call = NoFailure THEN NoTarget ELSE calls[failing_call].db_id
        sent == IF failing_call = NoFailure THEN Sent(calls)
                ELSE Sent(SubSeq(calls, 1, failing_call - 1))
    IN /\ failing_call \in {NoFailure} \cup DOMAIN calls
       /\ queue' = queue \cup sent
       /\ sched_result' =
             [status |-> IF failing_call = NoFailure THEN "success" ELSE "error",
              at |-> now, selected |-> AutoMonitored, failed_for |-> failed_for,
              sent |-> sent]
       /\ UNCHANGED runs
       /\ BrokerFrame

\* celery beat: the entry schedule-monitoring is due at every full minute
Beat ==
    /\ beats < MaxBeats
    /\ now = beats * BeatPeriod
    /\ beats' = beats + 1
    /\ \E failing_call \in 0..(3 * Cardinality(Targets)) : schedule_monitoring_tasks(failing_call)

Due == {msg \in queue : msg.eta <= now}

\* a worker receives a due message and starts the task it names
Receive(msg) ==
    /\ msg \in Due
    /\ queue' = queue \ {msg}
    /\ runs' = runs \cup {[task |-> msg.task, db_id |-> msg.db_id, eta |-> msg.eta,
                           started |-> now]}
    /\ UNCHANGED <<beats, sched_result>>
    /\ BrokerFrame

ReceiveDue == \E msg \in queue : Receive(msg)

\* the times at which beat or a message in the broker is due next
NextDue ==
    {msg.eta : msg \in {m \in queue : m.eta > now}}
        \cup (IF beats < MaxBeats THEN {beats * BeatPeriod} ELSE {})

\* time passes until something is due; the worker is idle and takes every
\* message at its eta
WaitForDue ==
    /\ Due = {}
    /\ beats < MaxBeats => now < beats * BeatPeriod
    /\ NextDue # {}
    /\ now' = CHOOSE t \in NextDue : \A u \in NextDue : t <= u
    /\ ticks' = ticks + 1
    /\ UNCHANGED <<varsTargets, varsPools, varsCollect, varsJobs, varsQS, varsCT, varsML,
                   varsExt>>

\* both targets are active; target 2 may have automatic monitoring off
InitBeat ==
    /\ IdleClock /\ IdleTargets /\ IdlePools /\ IdleCollect /\ IdleJobs /\ IdleQS /\ IdleCT
    /\ IdleML /\ IdleMon /\ IdleApi /\ IdleAsync /\ IdleOps /\ IdlePass
    /\ auto_monitoring \in {f \in [Targets -> BOOLEAN] : f[1]}
    /\ queue = {}
    /\ runs = {}
    /\ beats = 0
    /\ sched_result = NoSchedResult

NextBeat == Beat \/ ReceiveDue \/ WaitForDue

SpecBeat == InitBeat /\ [][NextBeat]_vars

(***************************************************************************)
(* SpecWorker: beat, the broker and a worker that runs the collection jobs *)
(* it receives; the messages of the two delayed jobs stay in the broker    *)
(***************************************************************************)
\* the introspection query a failing collection of this worker stops at
FirstQuery == CHOOSE q \in FailingQueries : \A other \in FailingQueries : q <= other

\* a worker receives a due collect_metrics_task message and runs the task
RunCollectMetrics(msg) ==
    /\ msg \in Due
    /\ msg.task = "collect_metrics_task"
    /\ \E outcome \in CollectOutcomes, failing_query \in {NoFailure, FirstQuery} :
          /\ collect_metrics_run(msg.db_id, outcome, failing_query)
          /\ runs' = runs \cup {[task |-> msg.task, db_id |-> msg.db_id, eta |-> msg.eta,
                                 started |-> now, fault |-> outcome,
                                 status |-> cm_result'.status]}
    /\ queue' = queue \ {msg}

WorkerRuns == \E msg \in queue : RunCollectMetrics(msg)

\* the next full minute, once beat has sent what was due
NextMinute ==
    /\ beats < MaxBeats
    /\ now < beats * BeatPeriod
    /\ now' = now + BeatPeriod
    /\ ticks' = ticks + 1
    /\ UNCHANGED <<varsTargets, varsPools, varsCollect, varsJobs, varsQS, varsCT, varsML,
                   varsExt>>

\* both targets are active, target 1 is monitored automatically
InitWorker ==
    /\ IdleClock /\ IdleTargets /\ IdlePools /\ IdleCollect /\ IdleJobs /\ IdleQS /\ IdleCT
    /\ IdleML /\ IdleMon /\ IdleApi /\ IdleAsync /\ IdleOps /\ IdlePass
    /\ auto_monitoring = [t \in Targets |-> t = 1]
    /\ queue = {}
    /\ runs = {}
    /\ beats = 0
    /\ sched_result = NoSchedResult

NextWorker == Beat \/ WorkerRuns \/ NextMinute

SpecWorker == InitWorker /\ [][NextWorker]_vars

\* beat is punctual and a worker takes every message that is due
SpecWorkerFair ==
    /\ SpecWorker
    /\ WF_vars(Beat) /\ WF_vars(NextMinute)
    /\ \A msg \in [task : {"collect_metrics_task"}, db_id : Targets,
                    eta : {b * BeatPeriod : b \in 0..MaxBeats}] :
          WF_vars(RunCollectMetrics(msg))

(***************************************************************************)
(* SpecPoolRace: collection jobs running concurrently in one process; the  *)
(* steps are the points at which another job can run: the membership test  *)
(* (celery_tasks.py line 84), the awaited asyncpg.create_pool              *)
(* (postgresql_monitor.py line 32) and the store into the map (line 43)    *)
(***************************************************************************)
Jobs == 1..MaxJobs

\* line 84: if db_id not in postgresql_monitor.connection_pools
JobCheckPool(j) ==
    /\ job_pc[j] = "start"
    /\ job_pc' = [job_pc EXCEPT ![j] =
            IF connection_pools[job_db[j]] = NoPool THEN "create" ELSE "collect"]
    /\ UNCHANGED <<job_db, job_pool, job_record>>
    /\ UNCHANGED <<varsClock, varsTargets, varsPools, varsCollect, varsQS, varsCT, varsExt, varsML>>

\* line 32: pool = await asyncpg.create_pool(...)
JobCreatePool(j) ==
    /\ job_pc[j] = "create"
    /\ \E pool_ok \in BOOLEAN :
         IF pool_ok
         THEN /\ job_pool' = [job_pool EXCEPT ![j] = NewPoolId(pools_created)]
              /\ pools_created' = pools_created \cup
                    {[id |-> NewPoolId(pools_created), db_id |-> job_db[j]]}
              /\ job_pc' = [job_pc EXCEPT ![j] = "store"]
         ELSE /\ job_pc' = [job_pc EXCEPT ![j] = "failed"]
              /\ UNCHANGED <<job_pool, pools_created>>
    /\ UNCHANGED <<job_db, job_record, connection_pools>>
    /\ UNCHANGED <<varsClock, varsTargets, varsCollect, varsQS, varsCT, varsExt, varsML>>

\* line 43: self.connection_pools[db_id] = pool
JobStorePool(j) ==
    /\ job_pc[j] = "store"
    /\ connection_pools' = [connection_pools EXCEPT ![job_db[j]] = job_pool[j]]
    /\ job_pc' = [job_pc EXCEPT ![j] = "collect"]
    /\ UNCHANGED <<job_db, job_pool, job_record, pools_created>>
    /\ UNCHANGED <<varsClock, varsTargets, varsCollect, varsQS, varsCT, varsExt, varsML>>

\* lines 92-104: the collection through the pool now in the map; when it
\* returns metrics the job builds metric_record with timestamp=utcnow()
JobBuildRecord(j) ==
    /\ job_pc[j] = "collect"
    /\ \E collected \in BOOLEAN :
         IF collected
         THEN /\ Len(performance_metrics[job_db[j]]) < MaxSamples
              /\ job_record' = [job_record EXCEPT ![j] = now]
              /\ job_pc' = [job_pc EXCEPT ![j] = "commit"]
         ELSE /\ job_pc' = [job_pc EXCEPT ![j] = "done"]
              /\ UNCHANGED job_record
    /\ UNCHANGED <<job_db, job_pool>>
    /\ UNCHANGED <<varsClock, varsTargets, varsPools, varsCollect, varsQS, varsCT, varsExt, varsML>>

\* lines 126-127: db.session.add(metric_record); db.session.commit()
JobCommit(j) ==
    /\ job_pc[j] = "commit"
    /\ performance_metrics' =
          [performance_metrics EXCEPT ![job_db[j]] = Append(@, job_record[j])]
    /\ job_pc' = [job_pc EXCEPT ![j] = "done"]
    /\ UNCHANGED <<job_db, job_pool, job_record>>
    /\ UNCHANGED <<varsClock, varsTargets, varsPools, cm_result, varsQS, varsCT, varsExt, varsML>>

\* a finished job slot is taken by the next scheduled collection job
JobRestart(j) ==
    /\ job_pc[j] \in {"done", "failed"}
    /\ Cardinality(pools_created) < MaxPoolsCreated
    /\ \E db_id \in Targets : job_db' = [job_db EXCEPT ![j] = db_id]
    /\ job_pc' = [job_pc EXCEPT ![j] = "start"]
    /\ job_pool' = [job_pool EXCEPT ![j] = NoPool]
    /\ job_record' = [job_record EXCEPT ![j] = NoTime]
    /\ UNCHANGED <<varsClock, varsTargets, varsPools, varsCollect, varsQS, varsCT, varsExt, varsML>>

InitPoolRace ==
    /\ IdleExt
    /\ IdleClock /\ IdleTargets /\ IdlePools /\ IdleCollect /\ IdleQS /\ IdleCT /\ IdleML
    /\ job_pc = [j \in Jobs |-> "start"]
    /\ job_db \in [Jobs -> Targets]
    /\ job_pool = [j \in Jobs |-> NoPool]
    /\ job_record = [j \in Jobs |-> NoTime]

CheckPoolStep == \E j \in Jobs : JobCheckPool(j)
CreatePoolStep == \E j \in Jobs : JobCreatePool(j)
StorePoolStep == \E j \in Jobs : JobStorePool(j)
BuildRecordStep == \E j \in Jobs : JobBuildRecord(j)
CommitStep == \E j \in Jobs : JobCommit(j)
RestartStep == \E j \in Jobs : JobRestart(j)

\* the wall clock moves on while the jobs run
ClockStep == TickCollect

NextPoolRace ==
    \/ CheckPoolStep \/ CreatePoolStep \/ StorePoolStep \/ BuildRecordStep \/ CommitStep
    \/ RestartStep \/ ClockStep

SpecPoolRace == InitPoolRace /\ [][NextPoolRace]_vars

(***************************************************************************)
(* Specifications of the model lifecycle                                   *)
(***************************************************************************)
\* n complete rows stored at time 0
History(n) == [i \in 1..n |-> CompleteRow]

MetricRetentionDays == 30
AlertRetentionDays == 7

ThirtyDays == MetricRetentionDays * SecondsPerDay

TrainLoadPredictor ==
    \E database_id \in MLOwners, outcome \in TrainOutcomes :
        train_load_predictor(database_id, outcome)

TrainAnomalyDetector ==
    \E database_id \in MLOwners, outcome \in TrainOutcomes :
        train_anomaly_detector(database_id, outcome)

TrainQueryTimePredictor ==
    \E database_id \in MLOwners, outcome \in TrainOutcomes :
        train_query_time_predictor(database_id, outcome)

PredictLoad ==
    \E database_id \in MLOwners, latest_metrics \in {CompleteRow, NoDiskRow}, count_ok \in BOOLEAN :
        predict_load(latest_metrics, database_id, count_ok)

DetectAnomalies ==
    /\ Len(alerts) < MaxAlerts
    /\ \E database_id \in MLOwners, latest_metrics \in {CompleteRow, NoQueryTimeRow},
          anomaly_score \in AnomalyScores, insert_ok \in BOOLEAN :
            /\ ~insert_ok => anomaly_score = AnomalySeverityCutoff - 10
            /\ detect_anomalies(latest_metrics, database_id, anomaly_score, insert_ok)

PredictQueryTime ==
    \E database_id \in MLOwners, latest_metrics \in {CompleteRow, NoCpuRow} :
        predict_query_time(latest_metrics, database_id)

\* the row insert of collect_metrics_task, with the readings the collector
\* may or may not have obtained
StoreSample ==
    /\ Len(performance_metrics[1]) = MIN_TRAIN_SIZE - 1
    /\ \E row \in {CompleteRow, NoDiskRow, ZeroQueryTimeRow} :
          performance_metrics' =
              [performance_metrics EXCEPT ![1] = Append(@, [row EXCEPT !.timestamp = now])]
    /\ ml_result' = NoResult
    /\ UNCHANGED <<varsClock, varsTargets, varsPools, cm_result, varsJobs, varsQS, varsCT, varsExt,
                   varsFiles, varsCache, alerts>>

\* the three delete filters of cleanup_old_data_task; a comparison with a
\* NULL column selects nothing
OldMetric_AtCutoff(row, current_time) ==
    row.timestamp <= current_time - ThirtyDays

OldMetric(row, current_time) ==
    row.timestamp < current_time - ThirtyDays

OldAlert_IgnoresResolved(alert, current_time) ==
    /\ alert.resolved_at # None
    /\ alert.resolved_at < current_time - AlertRetentionDays * SecondsPerDay

OldAlert(alert, current_time) ==
    /\ alert.is_resolved
    /\ alert.resolved_at # None
    /\ alert.resolved_at < current_time - AlertRetentionDays * SecondsPerDay

OldRecommendation(rec, current_time) ==
    /\ rec.is_applied
    /\ rec.applied_at # None
    /\ rec.applied_at < current_time - ThirtyDays

\* the tables as cleanup_old_data_task found them
CleanupSnapshot ==
    [metrics_before |-> performance_metrics, alerts_before |-> alerts,
     recommendations_before |-> recommendations, statistics_before |-> query_statistics,
     active_before |-> is_active, status_before |-> connection_status]

\* cleanup_old_data_task: the three deletes and one commit; when any of
\* them raises nothing is committed and the task returns an error
cleanup_old_data_task(commit_ok) ==
    LET RecentMetric(row) == ~OldMetric(row, now)
        KeptAlert(alert) == ~OldAlert(alert, now)
        KeptRecommendation(rec) == ~OldRecommendation(rec, now)
        metrics == [t \in Targets |-> SelectSeq(performance_metrics[t], RecentMetric)]
        old_metrics == CountAll(performance_metrics, Targets) - CountAll(metrics, Targets)
        old_alerts == Len(alerts) - Len(SelectSeq(alerts, KeptAlert))
        old_recommendations ==
            Len(recommendations) - Len(SelectSeq(recommendations, KeptRecommendation))
    IN /\ IF commit_ok
          THEN /\ performance_metrics' = metrics
               /\ alerts' = SelectSeq(alerts, KeptAlert)
               /\ recommendations' = SelectSeq(recommendations, KeptRecommendation)
               /\ ml_result' = [op |-> "cleanup_old_data", status |-> "success", at |-> now,
                                metrics_removed |-> old_metrics, alerts_removed |-> old_alerts,
                                recommendations_removed |-> old_recommendations]
                                   @@ CleanupSnapshot
          ELSE /\ UNCHANGED <<performance_metrics, alerts, recommendations>>
               /\ ml_result' = [op |-> "cleanup_old_data", status |-> "error", at |-> now]
                                   @@ CleanupSnapshot
       /\ UNCHANGED <<varsClock, varsTargets, varsPools, cm_result, varsJobs, varsQS, varsCT,
                      varsMon, varsApi, varsAsync, varsBroker, varsPass, varsFiles, varsCache>>

CleanupOldData == \E commit_ok \in BOOLEAN : cleanup_old_data_task(commit_ok)

MLTick(d, max) ==
    /\ AdvanceClock(d, max)
    /\ ml_result' = NoResult
    /\ UNCHANGED <<varsTargets, varsPools, varsCollect, varsJobs, varsQS, varsCT, varsExt,
                   varsFiles, varsCache, alerts>>

TickCache == \E d \in {1, cache_ttl - 1, SecondsPerDay} : MLTick(d, MaxTicks)

\* a second, or the model file age limit and two cache lifetimes
TickServe ==
    \E d \in {1, ModelMaxAgeDays * SecondsPerDay + 2 * cache_ttl} : MLTick(d, MaxServeTicks)

TickTrain == MLTick(ThirtyDays + 1, MaxTrainTicks)

IdleButMetrics ==
    /\ IdleExt
    /\ IdleClock /\ IdleTargets /\ IdlePools /\ IdleJobs /\ IdleQS /\ IdleCT /\ IdleML
    /\ cm_result = [status |-> "none", db_id |-> NoTarget, reason |-> "none"]

\* target 1 has enough history to train on; the analyzer starts with an
\* empty cache and the model directory is empty
InitCache ==
    /\ IdleButMetrics
    /\ performance_metrics = [t \in Targets |-> IF t = 1 THEN History(MIN_TRAIN_SIZE) ELSE << >>]

\* the load predictor of target 1 is trained, retrained and requested
RetrainLoadPredictor ==
    \E outcome \in TrainOutcomes : train_load_predictor(1, outcome)

RequestLoadPrediction ==
    \E latest_metrics \in {CompleteRow, NoDiskRow} : predict_load(latest_metrics, 1, TRUE)

NextCache == RetrainLoadPredictor \/ RequestLoadPrediction \/ TickCache

SpecCache == InitCache /\ [][NextCache]_vars

\* what the training job of one owner has left on disk: nothing, the
\* estimator and the scaler, or the estimator alone (scaler dump raised)
ArtifactStates == {"none", "pair", "estimator_only"}

ArtifactNames ==
    {<<"load_predictor", "load_scaler">>, <<"anomaly_detector", "anomaly_scaler">>,
     <<"query_time_predictor", "query_time_scaler">>}

\* the model directory after the jobs of one kind ran at time 0 for target 1
\* (run 1) and for all targets (run 2)
TrainedFiles(names, specific, global) ==
    LET Run(owner) == IF owner = 1 THEN 1 ELSE 2
        State(owner) == IF owner = 1 THEN specific ELSE global
        Written(owner) ==
            IF State(owner) = "none" THEN {}
            ELSE IF State(owner) = "pair"
            THEN {get_model_paths(owner)[names[1]], get_model_paths(owner)[names[2]]}
            ELSE {get_model_paths(owner)[names[1]]}
    IN [path \in AllPaths |->
           IF path \in Written(1) THEN [run |-> Run(1), mtime |-> 0]
           ELSE IF path \in Written(NoTarget) THEN [run |-> Run(NoTarget), mtime |-> 0]
           ELSE NoFile]

\* target 1 is established: its rows suffice for its own and the global
\* models; the training jobs of one kind have run, or none has
InitServe ==
    /\ IdleExt
    /\ IdleClock /\ IdleTargets /\ IdlePools /\ IdleJobs /\ IdleQS /\ IdleCT
    /\ cm_result = [status |-> "none", db_id |-> NoTarget, reason |-> "none"]
    /\ performance_metrics = [t \in Targets |-> IF t = 1 THEN History(MIN_TRAIN_SIZE) ELSE << >>]
    /\ \E names \in ArtifactNames, specific \in ArtifactStates, global \in ArtifactStates :
          model_files = TrainedFiles(names, specific, global)
    /\ train_runs = MaxTrainRuns
    /\ models_cache = [k \in AllKeys |-> None]
    /\ last_cache_update = [k \in AllKeys |-> NoTime]
    /\ alerts = << >>
    /\ ml_result = NoResult

NextServe ==
    \/ PredictLoad \/ DetectAnomalies \/ PredictQueryTime
    \/ cleanup_old_models \/ TickServe

SpecServe == InitServe /\ [][NextServe]_vars

(***************************************************************************)
(* SpecRetrain: the load predictor of target 1 is retrained by a worker    *)
(* while the analyzer serves predictions; the job steps at its two         *)
(* joblib.dump calls (ml_tasks.py lines 151-152)                           *)
(***************************************************************************)
MaxRetrainings == 1

EstimatorPath == get_model_paths(1).load_predictor
ScalerPath == get_model_paths(1).load_scaler

\* the retraining job has written its estimator and not yet its scaler
BetweenDumps == model_files[EstimatorPath].run > model_files[ScalerPath].run

\* line 151: joblib.dump(model, model_path)
DumpEstimator ==
    /\ ~BetweenDumps
    /\ train_runs < 1 + MaxRetrainings
    /\ train_runs' = train_runs + 1
    /\ model_files' = [model_files EXCEPT ![EstimatorPath] = [run |-> train_runs + 1, mtime |-> now]]
    /\ ml_result' = NoResult
    /\ TrainFrame

\* line 152: joblib.dump(scaler, scaler_path), and the return of the job
DumpScaler ==
    /\ BetweenDumps
    /\ model_files' = [model_files EXCEPT
                          ![ScalerPath] = [run |-> model_files[EstimatorPath].run, mtime |-> now]]
    /\ ml_result' = TrainResult("train_load_predictor", 1, "success",
                                Len(performance_metrics[1]), Len(performance_metrics[1]))
    /\ UNCHANGED train_runs
    /\ TrainFrame

\* the first training job of target 1 has run; the analyzer's cache is empty
InitRetrain ==
    /\ IdleExt
    /\ IdleClock /\ IdleTargets /\ IdlePools /\ IdleJobs /\ IdleQS /\ IdleCT
    /\ cm_result = [status |-> "none", db_id |-> NoTarget, reason |-> "none"]
    /\ performance_metrics = [t \in Targets |-> IF t = 1 THEN History(MIN_TRAIN_SIZE) ELSE << >>]
    /\ model_files = TrainedFiles(<<"load_predictor", "load_scaler">>, "pair", "none")
    /\ train_runs = 1
    /\ models_cache = [k \in AllKeys |-> None]
    /\ last_cache_update = [k \in AllKeys |-> NoTime]
    /\ alerts = << >>
    /\ ml_result = NoResult

NextRetrain == DumpEstimator \/ DumpScaler \/ RequestLoadPrediction \/ TickCache

SpecRetrain == InitRetrain /\ [][NextRetrain]_vars

\* one row short of the training minimum
InitTrain ==
    /\ IdleButMetrics
    /\ performance_metrics = [t \in Targets |-> IF t = 1 THEN History(MIN_TRAIN_SIZE - 1) ELSE << >>]

NextTrain ==
    \/ StoreSample \/ CleanupOldData \/ TickTrain
    \/ TrainLoadPredictor \/ TrainAnomalyDetector \/ TrainQueryTimePredictor

SpecTrain == InitTrain /\ [][NextTrain]_vars

(***************************************************************************)
(* SpecRetry: one training job sent to the broker and executed by a worker *)
(* until it returns or its retries are used up                             *)
(***************************************************************************)
\* @shared_task(bind=True, max_retries=3)
max_retries == 3
\* raise self.retry(exc=exc, countdown=60)
RetryCountdown == 60

TrainingTasks == {"train_load_predictor", "train_anomaly_detector", "train_query_time_predictor"}

RetryAllowed_Always(retries) == TRUE

\* self.retry sends the task again unless request.retries has reached
\* max_retries; then it raises exc and the task fails
RetryAllowed(retries) == retries < max_retries

\* the body of the task a message names
TrainingRun(task, database_id, outcome) ==
    IF task = "train_load_predictor" THEN train_load_predictor_run(database_id, outcome)
    ELSE IF task = "train_anomaly_detector" THEN train_anomaly_detector_run(database_id, outcome)
    ELSE train_query_time_predictor_run(database_id, outcome)

\* the state of a task after one execution that returned status
StateAfter(status, retries) ==
    IF status # "retry" THEN "SUCCESS"
    ELSE IF RetryAllowed(retries) THEN "RETRY" ELSE "FAILURE"

\* train_*.delay(database_id)
SubmitTraining ==
    /\ queue = {} /\ runs = {}
    /\ \E task \in TrainingTasks, database_id \in MLOwners :
          queue' = {Message(task, database_id, now) @@ [retries |-> 0]}
    /\ UNCHANGED <<runs, beats, sched_result>>
    /\ BrokerFrame

\* a worker executes the task of a due message; the except branch of the
\* task (lines 170-172) sends it again, 60 seconds later
ExecuteTraining(msg) ==
    /\ msg \in Due
    /\ \E outcome \in TrainOutcomes : TrainingRun(msg.task, msg.db_id, outcome)
    /\ LET state == StateAfter(ml_result'.status, msg.retries) IN
       /\ runs' = runs \cup {[task |-> msg.task, db_id |-> msg.db_id, eta |-> msg.eta,
                              started |-> now, retries |-> msg.retries,
                              status |-> ml_result'.status, state |-> state]}
       /\ queue' = (queue \ {msg}) \cup
                       (IF state = "RETRY"
                        THEN {[msg EXCEPT !.eta = now + RetryCountdown, !.retries = @ + 1]}
                        ELSE {})

WorkerTrains == \E msg \in queue : ExecuteTraining(msg)

\* time passes until the retry is due
WaitForRetry ==
    /\ queue # {} /\ Due = {}
    /\ \E msg \in queue :
          /\ \A other \in queue : msg.eta <= other.eta
          /\ now' = msg.eta
    /\ ticks' = ticks + 1
    /\ ml_result' = NoResult
    /\ UNCHANGED <<varsTargets, varsPools, varsCollect, varsJobs, varsQS, varsCT, varsExt,
                   varsFiles, varsCache, alerts>>

\* target 1 is one row short of the training minimum, or has just reached it
InitRetry ==
    /\ IdleButMetrics
    /\ \E n \in {MIN_TRAIN_SIZE - 1, MIN_TRAIN_SIZE} :
          performance_metrics = [t \in Targets |-> IF t = 1 THEN History(n) ELSE << >>]

NextRetry == SubmitTraining \/ WorkerTrains \/ WaitForRetry

SpecRetry == InitRetry /\ [][NextRetry]_vars

\* target 1 is newly onboarded, one row short of the serving minimum;
\* target 2 supplies the rest of the rows the global models train on
InitHistory ==
    /\ IdleButMetrics
    /\ performance_metrics =
          [t \in Targets |-> IF t = 1 THEN History(MIN_PREDICTION_SIZE - 1)
                             ELSE History(MIN_TRAIN_SIZE - MIN_PREDICTION_SIZE + 1)]

\* one more row of target 1
StoreTargetSample ==
    /\ Len(performance_metrics[1]) = MIN_PREDICTION_SIZE - 1
    /\ performance_metrics' = [performance_metrics EXCEPT ![1] = Append(@, CompleteRow)]
    /\ ml_result' = NoResult
    /\ UNCHANGED <<varsClock, varsTargets, varsPools, cm_result, varsJobs, varsQS, varsCT, varsExt,
                   varsFiles, varsCache, alerts>>

NextHistory ==
    \/ StoreTargetSample
    \/ TrainLoadPredictor \/ TrainAnomalyDetector \/ TrainQueryTimePredictor
    \/ PredictLoad \/ DetectAnomalies \/ PredictQueryTime

SpecHistory == InitHistory /\ [][NextHistory]_vars

(***************************************************************************)
(* Retention: cleanup_old_data_task at work on tables that hold rows on    *)
(* both sides of every cutoff                                              *)
(***************************************************************************)
MaxCleanupTicks == 2

\* the rows of a table, in insertion order, that a history has left of all
Subsequence(all, picked) ==
    LET F[i \in 0..Len(all)] ==
            IF i = 0 THEN << >>
            ELSE IF i \in picked THEN Append(F[i - 1], all[i]) ELSE F[i - 1]
    IN F[Len(all)]

\* the first cleanup of the model runs on day 31
CleanupStart == ThirtyDays + SecondsPerDay

\* samples of one target collected on days 0, 1 and 2: 31, 30 and 29 days
\* old at the first cleanup
SampleRows ==
    <<[CompleteRow EXCEPT !.timestamp = 0],
      [CompleteRow EXCEPT !.timestamp = SecondsPerDay],
      [CompleteRow EXCEPT !.timestamp = 2 * SecondsPerDay]>>

ResolvedAlert(database_id, is_resolved, resolved_at) ==
    [NewAlert(database_id, "anomaly", "medium", "performance_anomaly")
        EXCEPT !.is_resolved = is_resolved, !.resolved_at = resolved_at]

\* alerts raised on day 0: one open, one resolved and reopened, and three
\* resolved 8, 7 and 6 days before the first cleanup
AlertRows ==
    <<ResolvedAlert(1, FALSE, None),
      ResolvedAlert(1, FALSE, 0),
      ResolvedAlert(2, TRUE, CleanupStart - (AlertRetentionDays + 1) * SecondsPerDay),
      ResolvedAlert(1, TRUE, CleanupStart - AlertRetentionDays * SecondsPerDay),
      ResolvedAlert(2, TRUE, CleanupStart - (AlertRetentionDays - 1) * SecondsPerDay)>>

AppliedRecommendation(database_id, is_applied, applied_at) ==
    [database_id |-> database_id, is_applied |-> is_applied, applied_at |-> applied_at]

\* recommendations made on day 0: one never applied, one applied and
\* withdrawn, and three applied 31, 30 and 29 days before the first cleanup
RecommendationRows ==
    <<AppliedRecommendation(1, FALSE, None),
      AppliedRecommendation(2, FALSE, 0),
      AppliedRecommendation(1, TRUE, 0),
      AppliedRecommendation(2, TRUE, SecondsPerDay),
      AppliedRecommendation(1, TRUE, 2 * SecondsPerDay)>>

TickCleanup ==
    /\ AdvanceClock(SecondsPerDay, MaxCleanupTicks)
    /\ ml_result' = NoResult
    /\ UNCHANGED <<varsTargets, varsPools, varsCollect, varsJobs, varsQS, varsCT, varsExt,
                   varsFiles, varsCache, alerts>>

\* target 2 is inactive and has an old QueryStat row
InitCleanup ==
    /\ IdleMon /\ IdleApi /\ IdleAsync /\ IdleBroker /\ IdlePass
    /\ IdlePools /\ IdleJobs /\ IdleCT
    /\ now = CleanupStart
    /\ ticks = 0
    /\ is_active = [t \in Targets |-> t = 1]
    /\ connection_status = [t \in Targets |-> IF t = 1 THEN "connected" ELSE "unknown"]
    /\ last_connected = [t \in Targets |-> IF t = 1 THEN 0 ELSE NoTime]
    /\ cm_result = [status |-> "none", db_id |-> NoTarget, reason |-> "none"]
    /\ \E picked \in SUBSET DOMAIN SampleRows :
          performance_metrics = [t \in Targets |-> IF t = 1 THEN Subsequence(SampleRows, picked)
                                                   ELSE SampleRows]
    /\ query_statistics =
          [t \in Targets |-> [h \in QueryHashes |->
              IF t = 2 /\ h = EarlierRow.query_hash THEN <<EarlierRow>> ELSE << >>]]
    /\ qs_result = [status |-> "none", db_id |-> NoTarget, stats |-> << >>,
                    updated |-> 0, new |-> 0]
    /\ model_files = [path \in AllPaths |-> NoFile]
    /\ train_runs = 0
    /\ models_cache = [k \in AllKeys |-> None]
    /\ last_cache_update = [k \in AllKeys |-> NoTime]
    /\ \E picked \in SUBSET DOMAIN AlertRows : alerts = Subsequence(AlertRows, picked)
    /\ \E picked \in SUBSET DOMAIN RecommendationRows :
          recommendations = Subsequence(RecommendationRows, picked)
    /\ ml_result = NoResult

NextCleanup == CleanupOldData \/ TickCleanup

SpecCleanup == InitCleanup /\ [][NextCleanup]_vars

(***************************************************************************)
(* Threshold analysis: analyze_performance_task (celery_tasks.py) and the  *)
(* analyzer it calls; PerformanceAnalyzer.analyze_metrics_and_generate_    *)
(* alerts is not part of the sources and follows the specification         *)
(***************************************************************************)
AnalysisWindow == 3600
WindowLimit == 60

MetricOrder == <<"cpu_usage", "memory_usage">>

DefaultThresholds == [cpu_usage |-> 80, memory_usage |-> 85]

\* alert_thresholds of a target: unset, or a limit on cpu_usage
ThresholdSettings == {<< >>, [cpu_usage |-> 90]}

HighCpuRow == [CompleteRow EXCEPT !.cpu_usage = 95]
HighCpuAndMemoryRow == [CompleteRow EXCEPT !.cpu_usage = 95, !.memory_usage = 97]

\* recent_metrics: the target's rows of the last hour, newest first, 60 at most
RECURSIVE Reverse(_)
Reverse(seq) == IF seq = << >> THEN << >> ELSE Append(Reverse(Tail(seq)), Head(seq))

recent_metrics(metrics, db_id, t) ==
    LET InWindow(row) == row.timestamp >= t - AnalysisWindow
        newest_first == Reverse(SelectSeq(metrics[db_id], InWindow))
    IN IF Len(newest_first) > WindowLimit THEN SubSeq(newest_first, 1, WindowLimit)
       ELSE newest_first

ThresholdOf(thresholds, metric_name) ==
    IF metric_name \in DOMAIN thresholds THEN thresholds[metric_name]
    ELSE DefaultThresholds[metric_name]

\* a metric is breached when the newest sample of the window exceeds its threshold
IsBreached(window, thresholds, metric_name) ==
    /\ window[1][metric_name] # None
    /\ window[1][metric_name] > ThresholdOf(thresholds, metric_name)

IsOpen(alert) == ~alert.acknowledged /\ ~alert.is_resolved

HasOpenAlert_Never(table, db_id, metric_name) == FALSE
HasOpenAlert(table, db_id, metric_name) ==
    \E i \in DOMAIN table :
        /\ table[i].database_id = db_id
        /\ table[i].metric_name = metric_name
        /\ IsOpen(table[i])

\* analyze_metrics_and_generate_alerts: one Alert per breached metric that
\* has no open Alert of the target yet; returns the table and the count
RECURSIVE AnalyzeFrom(_, _, _, _, _)
AnalyzeFrom(k, table, db_id, window, thresholds) ==
    IF k > Len(MetricOrder) THEN table
    ELSE LET metric_name == MetricOrder[k]
             create == /\ IsBreached(window, thresholds, metric_name)
                       /\ ~HasOpenAlert(table, db_id, metric_name)
         IN AnalyzeFrom(k + 1,
                        IF create
                        THEN Append(table, NewAlert(db_id, "threshold", "high", metric_name))
                        ELSE table,
                        db_id, window, thresholds)

analyze_metrics_and_generate_alerts(table, db_id, window, thresholds) ==
    AnalyzeFrom(1, table, db_id, window, thresholds)

AnalysisFrame == UNCHANGED <<varsClock, varsTargets, varsPools, varsCollect, varsJobs,
                             varsQS, varsCT, varsExt, varsFiles, varsCache>>

AnalysisResult(db_id, status, reason, alerts_generated) ==
    [op |-> "analyze_performance_task", db_id |-> db_id, status |-> status,
     reason |-> reason, alerts_generated |-> alerts_generated]

\* analyze_performance_task: skipped for an inactive target or an empty
\* window, else the analyzer's alerts; an exception gives an error result
\* (the recommendations it also produces are not part of this model)
analyze_performance_run(db_id, thresholds, analysis_ok) ==
    LET window == recent_metrics(performance_metrics, db_id, now)
        table == analyze_metrics_and_generate_alerts(alerts, db_id, window, thresholds)
    IN /\ IF DatabaseInactive(db_id)
          THEN /\ ml_result' = AnalysisResult(db_id, "skipped", "database_inactive", 0)
               /\ alerts' = alerts
          ELSE IF window = << >>
          THEN /\ ml_result' = AnalysisResult(db_id, "skipped", "no_metrics", 0)
               /\ alerts' = alerts
          ELSE IF ~analysis_ok
          THEN /\ ml_result' = AnalysisResult(db_id, "error", "exception", 0)
               /\ alerts' = alerts
          ELSE /\ ml_result' = AnalysisResult(db_id, "success", "none", Len(table) - Len(alerts))
               /\ alerts' = table
       /\ UNCHANGED <<varsClock, varsTargets, varsPools, varsCollect, varsJobs, varsQS, varsCT,
                      varsFiles, varsCache, varsMon, varsApi, varsAsync, varsOps, varsPass,
                      auto_monitoring, beats, sched_result>>

\* analyze_performance_task(db_id), called directly
analyze_performance_task(db_id, thresholds, analysis_ok) ==
    /\ analyze_performance_run(db_id, thresholds, analysis_ok)
    /\ UNCHANGED <<queue, runs>>

AnalyzePerformance ==
    /\ Len(alerts) < MaxOpenRuns
    /\ \E db_id \in Targets, thresholds \in ThresholdSettings, analysis_ok \in BOOLEAN :
          analyze_performance_task(db_id, thresholds, analysis_ok)

\* the external acknowledgment of an alert
AcknowledgeAlert ==
    /\ \E i \in DOMAIN alerts :
          /\ ~alerts[i].acknowledged
          /\ alerts' = [alerts EXCEPT ![i].acknowledged = TRUE]
    /\ ml_result' = NoResult
    /\ AnalysisFrame

\* the external resolution of an alert
ResolveAlert ==
    /\ \E i \in DOMAIN alerts :
          /\ ~alerts[i].is_resolved
          /\ alerts' = [alerts EXCEPT ![i].is_resolved = TRUE, ![i].resolved_at = now]
    /\ ml_result' = NoResult
    /\ AnalysisFrame

\* the row insert of collect_metrics_task for target 1
StoreReading ==
    /\ Len(performance_metrics[1]) < MaxSamples
    /\ \E row \in {CompleteRow, HighCpuRow, HighCpuAndMemoryRow} :
          performance_metrics' =
              [performance_metrics EXCEPT ![1] = Append(@, [row EXCEPT !.timestamp = now])]
    /\ ml_result' = NoResult
    /\ UNCHANGED <<varsClock, varsTargets, varsPools, cm_result, varsJobs, varsQS, varsCT, varsExt,
                   varsFiles, varsCache, alerts>>

TickAlerts == MLTick(AnalysisWindow + 1, MaxAnalysisTicks)

\* target 1 is active and has no rows yet, target 2 is deactivated
InitAlerts ==
    /\ IdleExt
    /\ IdleClock /\ IdlePools /\ IdleCollect /\ IdleJobs /\ IdleQS /\ IdleCT /\ IdleML
    /\ is_active = [t \in Targets |-> t = 1]
    /\ connection_status = [t \in Targets |-> "unknown"]
    /\ last_connected = [t \in Targets |-> NoTime]

NextAlerts ==
    StoreReading \/ AnalyzePerformance \/ AcknowledgeAlert \/ ResolveAlert \/ TickAlerts

SpecAlerts == InitAlerts /\ [][NextAlerts]_vars

(***************************************************************************)
(* SpecDelayed: beat, the broker and a worker that runs every job it       *)
(* receives at its eta, while targets are deactivated and jobs are sent    *)
(* for an id that has no row                                               *)
(***************************************************************************)
\* an id DatabaseConnection.query.get finds no row for
MissingTarget == 3

MonitoringTasks ==
    {"collect_metrics_task", "collect_query_statistics_task", "analyze_performance_task"}

\* the status of the result the task named by a message has just returned
ReturnedStatus(task, collected, statistics, analysis) ==
    IF task = "collect_metrics_task" THEN collected.status
    ELSE IF task = "collect_query_statistics_task" THEN statistics.status
    ELSE analysis.status

\* the row pg_stat_statements returns to the passes of this worker
SlowStatement == CHOOSE row \in PgStatRows : \A other \in PgStatRows : row.mean_time >= other.mean_time

\* alert_thresholds of a target that has none set
DefaultSettings == << >>

\* the task body a message names
RunTask(msg) ==
    IF msg.task = "collect_metrics_task"
    THEN \E outcome \in {"ok", "pool_failed", "commit_failed"} :
            collect_metrics_run(msg.db_id, outcome, NoFailure)
    ELSE IF msg.task = "collect_query_statistics_task"
    THEN \E outcome \in {o \in PassOutcomes : o.rows \in {<< >>, <<SlowStatement>>}} :
            collect_query_statistics_run(msg.db_id, outcome)
    ELSE \E analysis_ok \in BOOLEAN :
            analyze_performance_run(msg.db_id, DefaultSettings, analysis_ok)

\* a worker receives a due message and runs the task to its return
RunJob(msg) ==
    /\ msg \in Due
    /\ RunTask(msg)
    /\ queue' = queue \ {msg}
    /\ runs' = runs \cup {[task |-> msg.task, db_id |-> msg.db_id, eta |-> msg.eta,
                           started |-> now,
                           active |-> msg.db_id \in Targets /\ is_active[msg.db_id],
                           status |-> ReturnedStatus(msg.task, cm_result', qs_result',
                                                     ml_result')]}

WorkerRunsJob == \E msg \in queue : RunJob(msg)

\* an administrator deactivates a target: is_active = False on its row
Deactivate ==
    /\ \E db_id \in Targets :
          /\ is_active[db_id]
          /\ is_active' = [is_active EXCEPT ![db_id] = FALSE]
    /\ UNCHANGED <<varsClock, connection_status, last_connected, varsPools, varsCollect,
                   varsJobs, varsQS, varsCT, varsML, varsExt>>

\* the three tasks are sent with an id that has no row
SendForMissing ==
    /\ \A m \in queue \cup runs : m.db_id # MissingTarget
    /\ queue' = queue \cup {Message(task, MissingTarget, now) : task \in MonitoringTasks}
    /\ UNCHANGED <<runs, beats, sched_result>>
    /\ BrokerFrame

\* both targets are active and have a full history of samples whose newest
\* reading breaches the cpu threshold; target 1 is monitored automatically
InitDelayed ==
    /\ IdleClock /\ IdleTargets /\ IdlePools /\ IdleJobs /\ IdleQS /\ IdleCT /\ IdleML
    /\ IdleMon /\ IdleApi /\ IdleAsync /\ IdleOps /\ IdlePass
    /\ performance_metrics = [t \in Targets |-> [i \in 1..MaxSamples |-> HighCpuRow]]
    /\ cm_result = [status |-> "none", db_id |-> NoTarget, reason |-> "none"]
    /\ auto_monitoring = [t \in Targets |-> t = 1]
    /\ queue = {}
    /\ runs = {}
    /\ beats = 0
    /\ sched_result = NoSchedResult

\* beat at the start of the behaviour, with the broker reachable
FirstBeat ==
    /\ beats = 0
    /\ now = 0
    /\ beats' = 1
    /\ schedule_monitoring_tasks(NoFailure)

\* time passes until the next message is due
WaitForJob ==
    /\ beats > 0
    /\ Due = {}
    /\ \E msg \in queue :
          /\ \A other \in queue : msg.eta <= other.eta
          /\ now' = msg.eta
    /\ ticks' = ticks + 1
    /\ UNCHANGED <<varsTargets, varsPools, varsCollect, varsJobs, varsQS, varsCT, varsML,
                   varsExt>>

NextDelayed == FirstBeat \/ WorkerRunsJob \/ Deactivate \/ SendForMissing \/ WaitForJob

SpecDelayed == InitDelayed /\ [][NextDelayed]_vars

(***************************************************************************)
(* Claims on query statistics                                              *)
(***************************************************************************)
\* the last stat of the pass carrying hash h, or << >> when the pass has none
StatsFor(stats, h) == SelectSeq(stats, LAMBDA st : st.query_hash = h)

TimingFieldsEqual(row, st) ==
    /\ row.calls = st.calls
    /\ row.total_time = st.total_time
    /\ row.mean_time = st.mean_time
    /\ row.min_time = st.min_time
    /\ row.max_time = st.max_time

Band(mean_time) ==
    CASE mean_time > 1000 -> "critical"
      [] mean_time > 500 /\ mean_time <= 1000 -> "slow"
      [] mean_time > 100 /\ mean_time <= 500 -> "normal"
      [] mean_time <= 100 -> "fast"

\* C2: after any sequence of sequential passes there is exactly one row per
\* (target, hash) seen so far: no (target, hash) ever has two rows, a row once
\* stored stays, a row appears only for a hash of the committed pass, and
\* after a committed pass the row of every hash of that pass carries the
\* calls and timings of the latest stat of that hash (not a sum) and the
\* category of its mean_time, while all other rows are untouched.
C2_OneRowPerHashLatestWins ==
    /\ [](\A t \in Targets, h \in QueryHashes : Len(query_statistics[t][h]) <= 1)
    /\ [](qs_result.status = "success" =>
            \A h \in QueryHashes :
                LET ss == StatsFor(qs_result.stats, h)
                    rows == query_statistics[qs_result.db_id][h]
                IN ss # << >> =>
                    /\ Len(rows) = 1
                    /\ TimingFieldsEqual(rows[1], ss[Len(ss)])
                    /\ rows[1].performance_category = Band(ss[Len(ss)].mean_time))
    /\ [][\A t \in Targets, h \in QueryHashes :
            LET touched == /\ qs_result'.status = "success"
                           /\ qs_result'.db_id = t
                           /\ StatsFor(qs_result'.stats, h) # << >>
            IN /\ Len(query_statistics[t][h]) = 1 => Len(query_statistics'[t][h]) = 1
               /\ ~touched => query_statistics'[t][h] = query_statistics[t][h]]_vars

\* a row first stored with mean_time 40 was seen again with mean_time 1500
C2_Witness ==
    /\ qs_result.status = "success"
    /\ qs_result.updated = 1
    /\ qs_result.new = 0
    /\ \E h \in QueryHashes :
         LET rows == query_statistics[1][h] IN
         /\ Len(rows) = 1
         /\ rows[1].mean_time = 1500
         /\ rows[1].calls = 7
         /\ rows[1].performance_category = "critical"
         /\ rows[1].last_seen > 0

\* C3: the category is a function of mean_time alone with exclusive upper-band
\* thresholds (1000 -> slow, 500 -> normal, 100 -> fast), and the update path
\* and the insert path agree.
C3_CategoryBands ==
    /\ \A c \in {ct_update, ct_insert} \ {"none"} :
        /\ c = "critical" <=> ct_mean > 1000
        /\ c = "slow" <=> (ct_mean > 500 /\ ct_mean <= 1000)
        /\ c = "normal" <=> (ct_mean > 100 /\ ct_mean <= 500)
        /\ c = "fast" <=> ct_mean <= 100
    /\ (ct_update # "none" /\ ct_insert # "none") => ct_update = ct_insert

\* the boundary 1000 classified by both paths
C3_Witness ==
    /\ ct_mean = 1000
    /\ ct_update = "slow"
    /\ ct_insert = "slow"

(***************************************************************************)
(* Claims on connection pools                                              *)
(***************************************************************************)
\* C9: acquiring a pool for a target that already has one reuses it: over
\* any sequence of sequential acquisitions at most one pool is ever created
\* per target, the map holds exactly that pool, and an entry once present is
\* never replaced.
C9_AcquireIdempotent ==
    /\ [](\A t \in Targets :
            /\ Cardinality(PoolsOf(pools_created, t)) <= 1
            /\ connection_pools[t] # NoPool <=>
                 PoolsOf(pools_created, t) = {[id |-> connection_pools[t], db_id |-> t]})
    /\ [][\A t \in Targets :
            connection_pools[t] # NoPool => connection_pools'[t] = connection_pools[t]]_vars

\* two collection runs of target 1 went through the acquisition, one pool
C9_Witness ==
    /\ Len(performance_metrics[1]) = 2
    /\ connection_pools[1] # NoPool
    /\ Cardinality(PoolsOf(pools_created, 1)) = 1

\* C10: under any interleaving of concurrent collection jobs at most one
\* pool per target is created and live, and every created pool whose store
\* has completed is the one the map holds (none is dropped unclosed).
C10_OnePoolPerTargetUnderConcurrency ==
    \A t \in Targets :
        /\ Cardinality(PoolsOf(pools_created, t)) <= 1
        /\ \A p \in PoolsOf(pools_created, t) :
              (\A j \in Jobs : ~(job_pc[j] = "store" /\ job_pool[j] = p.id))
                 => connection_pools[t] = p.id

(***************************************************************************)
(* Claims on the model cache, serving and training                         *)
(***************************************************************************)
ServeOps == {"predict_load", "detect_anomalies", "predict_query_time"}

TrainOps == {"train_load_predictor", "train_anomaly_detector", "train_query_time_predictor"}

\* the estimator and scaler names an operation works with
NamesOf(op) ==
    IF op \in {"predict_load", "train_load_predictor"}
    THEN <<"load_predictor", "load_scaler">>
    ELSE IF op \in {"detect_anomalies", "train_anomaly_detector"}
    THEN <<"anomaly_detector", "anomaly_scaler">>
    ELSE <<"query_time_predictor", "query_time_scaler">>

Looked(key) == {i \in DOMAIN ml_result.lookups : ml_result.lookups[i].key = key}

\* what the call that just returned could obtain under the key: what its own
\* lookup found, or, for a key it did not look up, a file or a live entry
Obtainable(name, owner) ==
    LET key == CacheKey(name, owner)
    IN IF Looked(key) # {}
       THEN \E i \in Looked(key) : ml_result.lookups[i].source # "missing"
       ELSE \/ model_files[get_model_paths(owner)[name]] # NoFile
            \/ CacheIsFresh(Analyzer, key, ml_result.at)

PairAvailable(names, owner) == Obtainable(names[1], owner) /\ Obtainable(names[2], owner)

\* C4: a key loaded from storage at T is served from the cache at every
\* request before T + 3600 s and reloaded from storage at every request
\* after T + 3600 s, one day later included.
C4_FreshnessWindow ==
    ml_result.op \in ServeOps =>
        \A i \in DOMAIN ml_result.lookups :
            LET l == ml_result.lookups[i]
            IN l.prev # NoTime =>
                  /\ timedelta_total_seconds(l.at - l.prev) < cache_ttl => l.source = "cache"
                  /\ timedelta_total_seconds(l.at - l.prev) > cache_ttl => l.source # "cache"

\* C5: called for a target, a serving operation uses the target's artifact
\* (estimator and scaler) when that is available, else the global artifact
\* when that is available, and reports "unavailable" only when neither is.
C5_TwoLevelResolution ==
    (ml_result.op \in ServeOps /\ ml_result.database_id # NoTarget) =>
        LET names == NamesOf(ml_result.op)
            specific == PairAvailable(names, ml_result.database_id)
            global == PairAvailable(names, NoTarget)
        IN /\ specific => (ml_result.reason # "model_not_found"
                           /\ ml_result.owner = ml_result.database_id)
           /\ (~specific /\ global) => (ml_result.reason # "model_not_found"
                                        /\ ml_result.owner = NoTarget)
           /\ (~specific /\ ~global) => ml_result.reason = "model_not_found"

NothingPersisted(names, database_id) ==
    \A owner \in {database_id, NoTarget}, k \in {1, 2} :
        model_files[get_model_paths(owner)[names[k]]] = NoFile

NoCacheEntry(key) == models_cache[key] = None /\ last_cache_update[key] = NoTime

\* C6 as stated: with no persisted model of the target and no global model,
\* the operation returns "unavailable", creates no Alert and leaves the
\* cache without an entry for the keys.
C6_NothingPersistedMeansUnavailable ==
    (ml_result.op \in ServeOps
        /\ NothingPersisted(NamesOf(ml_result.op), ml_result.database_id)) =>
        /\ ml_result.reason = "model_not_found"
        /\ ~ml_result.alert_created
        /\ \A i \in DOMAIN ml_result.lookups : NoCacheEntry(ml_result.lookups[i].key)

\* C6 amended: with no persisted model of the target, no global model and
\* no cache entry under the keys the call looks up, the operation returns
\* "unavailable", creates no Alert and leaves the cache without an entry
\* for those keys.
C6_NothingPersistedNorCachedMeansUnavailable ==
    (ml_result.op \in ServeOps
        /\ NothingPersisted(NamesOf(ml_result.op), ml_result.database_id)
        /\ \A i \in DOMAIN ml_result.lookups : ml_result.lookups[i].prev = NoTime) =>
        /\ ml_result.reason = "model_not_found"
        /\ ml_result.returned \in {"None", "anomaly_detected=False"}
        /\ ~ml_result.alert_created
        /\ \A i \in DOMAIN ml_result.lookups : NoCacheEntry(ml_result.lookups[i].key)

\* detect_anomalies for target 1 found nothing under the target's keys nor
\* under the global keys
C6_Witness ==
    /\ ml_result.op = "detect_anomalies"
    /\ ml_result.database_id = 1
    /\ NothingPersisted(NamesOf(ml_result.op), 1)
    /\ Len(ml_result.lookups) = 4
    /\ \A i \in DOMAIN ml_result.lookups :
          ml_result.lookups[i].prev = NoTime /\ ml_result.lookups[i].source = "missing"
    /\ ml_result.reason = "model_not_found"
    /\ ml_result.returned = "anomaly_detected=False"
    /\ alerts = << >>

\* C7: with fewer than 10 stored samples of the target, a model at hand and
\* usable readings, a serving operation returns the insufficient-history
\* result, makes no prediction and creates no Alert.
C7_ServingNeedsTenSamples ==
    (ml_result.op \in ServeOps
        /\ ml_result.reason \notin {"model_not_found", "invalid_features"}
        /\ _get_historical_metrics_count(performance_metrics, ml_result.database_id, TRUE)
              < MIN_PREDICTION_SIZE) =>
        /\ ml_result.reason = "insufficient_history"
        /\ ml_result.returned \in {"None", "anomaly_detected=False"}
        /\ ~ml_result.alert_created

\* the valid feature rows the job of the result has at hand
ValidRecords(op, database_id) ==
    IF op = "train_load_predictor"
    THEN ValidCount(performance_metrics, database_id, LoadRowIsValid)
    ELSE IF op = "train_anomaly_detector"
    THEN ValidCount(performance_metrics, database_id, AnomalyRowIsValid)
    ELSE ValidCount(performance_metrics, database_id, QueryTimeRowIsValid)

InsufficientData == {"insufficient_data", "insufficient_valid_data"}

\* C8: a training job that read fewer than 50 valid feature rows returns an
\* insufficient-data result, and no training run over fewer than 50 valid
\* rows writes, replaces or removes a model or scaler file.
C8_InsufficientDataWritesNothing ==
    /\ []((ml_result.op \in TrainOps
             /\ ml_result.status # "retry"
             /\ ValidRecords(ml_result.op, ml_result.database_id) < MIN_TRAIN_SIZE)
           => ml_result.status \in InsufficientData)
    /\ [][(ml_result'.op \in TrainOps
            /\ ValidRecords(ml_result'.op, ml_result'.database_id) < MIN_TRAIN_SIZE)
          => model_files' = model_files]_vars

\* a job returned insufficient_data for a key whose earlier artifact is
\* still on disk
C8_Witness ==
    /\ ml_result.op = "train_query_time_predictor"
    /\ ml_result.database_id = 1
    /\ ml_result.status = "insufficient_data"
    /\ ValidRecords(ml_result.op, 1) < MIN_TRAIN_SIZE
    /\ model_files[get_model_paths(1).query_time_predictor] # NoFile
    /\ model_files[get_model_paths(1).query_time_scaler] # NoFile

(***************************************************************************)
(* Claims on threshold alerts                                              *)
(***************************************************************************)
OpenAlerts(table, db_id, metric_name) ==
    {i \in DOMAIN table : /\ table[i].database_id = db_id
                          /\ table[i].metric_name = metric_name
                          /\ IsOpen(table[i])}

\* C1: whatever analysis runs came before, no (target, metric) pair has two
\* open alerts at once, and an analysis run adds no alert for a pair that
\* already has an open one.
C1_OneOpenAlertPerTargetMetric ==
    /\ [](\A t \in Targets, k \in DOMAIN MetricOrder :
            Cardinality(OpenAlerts(alerts, t, MetricOrder[k])) <= 1)
    /\ [][ml_result'.op = "analyze_performance_task" =>
            \A t \in Targets, k \in DOMAIN MetricOrder :
                OpenAlerts(alerts, t, MetricOrder[k]) # {} =>
                    OpenAlerts(alerts', t, MetricOrder[k]) = OpenAlerts(alerts, t, MetricOrder[k])]_vars

\* a second run over a breach whose alert is still open created nothing
C1_Witness ==
    /\ ml_result.op = "analyze_performance_task"
    /\ ml_result.status = "success"
    /\ ml_result.alerts_generated = 0
    /\ Len(alerts) = 1
    /\ OpenAlerts(alerts, 1, "cpu_usage") = {1}
    /\ performance_metrics[1] # << >>
    /\ performance_metrics[1][Len(performance_metrics[1])].cpu_usage = 95

(***************************************************************************)
(* Claims on pool release and on the failure paths of metrics collection   *)
(***************************************************************************)
AnyQuery == {NoFailure} \cup FailingQueries

\* C11: close_connection_pool(db_id) closes the pool of db_id and deletes its
\* map entry, after which db_id has no pool and a collection attempt logs
\* "no pool" and runs no query; for a target without a pool it changes
\* nothing; the entries of all other targets are left as they were.
C11_ReleaseRemovesOnlyThatPool ==
    mon_result.op = "close_connection_pool" =>
        LET d == mon_result.db_id
            before == mon_result.pools_before
            after == mon_result.pools_after
        IN /\ after[d] = NoPool
           /\ before[d] # NoPool =>
                 mon_result.closed_after = mon_result.closed_before \cup {before[d]}
           /\ before[d] = NoPool =>
                 /\ after = before
                 /\ mon_result.closed_after = mon_result.closed_before
           /\ \A t \in Targets \ {d} : after[t] = before[t]
           /\ \A q \in AnyQuery :
                 LET c == collect_performance_metrics(after, d, q)
                 IN c.log = "no_pool" /\ c.returned = "None" /\ c.queries_run = 0

\* a target's pool was released while the other target kept its own
C11_Witness ==
    /\ mon_result.op = "close_connection_pool"
    /\ mon_result.pools_before[mon_result.db_id] # NoPool
    /\ mon_result.pools_before[mon_result.db_id] \in closed_pools
    /\ \E t \in Targets \ {mon_result.db_id} : connection_pools[t] # NoPool

\* C12: when asyncpg.create_pool fails, create_connection_pool returns False
\* after that one attempt and leaves the pool map as it was; the collection
\* job then returns an error result, runs no introspection query and stores
\* no sample.
C12_PoolFailureReportedOnce ==
    /\ \A t \in Targets :
          LET r == create_connection_pool(connection_pools, pools_created, t, FALSE)
          IN ~r.ok /\ r.attempts = 1 /\ r.pools = connection_pools
                   /\ r.created = pools_created
    /\ cm_result.reason = "connection_pool_failed" =>
          /\ cm_result.status = "error"
          /\ cm_result.pool_attempts = 1
          /\ cm_result.pools_after = cm_result.pools_before
          /\ cm_result.pools_after[cm_result.db_id] = NoPool
          /\ cm_result.queries_run = 0
          /\ cm_result.samples_after = cm_result.samples_before

\* a job failed to get its pool while the other target has one
C12_Witness ==
    /\ cm_result.reason = "connection_pool_failed"
    /\ connection_pools[cm_result.db_id] = NoPool
    /\ \E t \in Targets \ {cm_result.db_id} : connection_pools[t] # NoPool

\* C13: collect_performance_metrics on a target without a pool runs no query,
\* creates no pool, and returns something that differs from what it returns
\* when a query fails with a pool present.
C13_NoPoolToldApartFromQueryFailure ==
    (mon_result.op = "collect_performance_metrics" /\ mon_result.log = "no_pool") =>
        LET d == mon_result.db_id
            with_pool == [mon_result.pools_before EXCEPT ![d] = 1]
        IN /\ mon_result.queries_run = 0
           /\ mon_result.pools_after = mon_result.pools_before
           /\ \A q \in FailingQueries :
                 collect_performance_metrics(with_pool, d, q).returned # mon_result.returned

\* C14: when one of the introspection queries raises, the collector returns
\* None (not the dict gathered so far), and the collection job returns an
\* error and stores no sample.
C14_CollectionAllOrNothing ==
    /\ \A t \in Targets, q \in FailingQueries :
          connection_pools[t] # NoPool =>
              LET c == collect_performance_metrics(connection_pools, t, q)
              IN c.returned = "None" /\ c.fields = {} /\ c.queries_run = q
    /\ (cm_result.reason = "metrics_collection_failed" /\ cm_result.queries_run > 0) =>
          /\ cm_result.status = "error"
          /\ cm_result.samples_after = cm_result.samples_before
    /\ cm_result.status = "success" =>
          /\ cm_result.queries_run = Len(IntrospectionQueries)
          /\ cm_result.samples_after = cm_result.samples_before + 1

\* the lock-statistics query failed after two queries had filled the dict,
\* on a target that already has a stored sample
C14_Witness ==
    /\ cm_result.reason = "metrics_collection_failed"
    /\ cm_result.queries_run = 3
    /\ Gathered(cm_result.queries_run - 1) # {}
    /\ cm_result.samples_before = 1
    /\ Len(performance_metrics[cm_result.db_id]) = 1

\* C15: a collection job whose collector returned no sample leaves the
\* target's connection_status at error.
C15_CollectionFailedSetsError ==
    cm_result.reason = "metrics_collection_failed" => cm_result.status_after = "error"

\* C16: a collection job whose cache write or cache delete raised after the
\* sample was stored still returns success and leaves connection_status at
\* connected.
C16_CacheFailureSwallowed ==
    (cm_result.status # "none" /\ cm_result.raised \in {"setex", "delete"}) =>
        /\ cm_result.samples_after = cm_result.samples_before + 1
        /\ cm_result.status = "success"
        /\ cm_result.status_after = "connected"

(***************************************************************************)
(* Claims on the Redis cache                                               *)
(***************************************************************************)
\* C17: no CacheService method lets an exception of the store reach its
\* caller: when Redis fails, get returns None, set returns False, delete
\* returns False and delete_pattern returns 0, and the store is unchanged.
C17_CacheFailuresNeverPropagate ==
    /\ \A key \in RedisKeys, store_ok \in BOOLEAN :
          /\ ~get(redis, key, store_ok).raised
          /\ ~delete(redis, key, store_ok).raised
          /\ \A value \in CacheValues : ~set(redis, key, value, store_ok).raised
    /\ \A pattern \in Patterns, store_ok \in BOOLEAN :
          ~delete_pattern(redis, pattern, store_ok).raised
    /\ cache_result.op # "none" =>
          /\ ~cache_result.raised
          /\ ~cache_result.store_ok =>
                /\ ~cache_result.store_changed
                /\ cache_result.op = "get" => cache_result.returned = PyNone
                /\ cache_result.op = "set" => cache_result.returned = PyBool(FALSE)
                /\ cache_result.op = "delete" => cache_result.returned = PyBool(FALSE)
                /\ cache_result.op = "delete_pattern" => cache_result.returned = PyInt(0)

\* Redis failed during a get of a key that holds an entry
C17_Witness ==
    /\ cache_result.op = "get"
    /\ ~cache_result.store_ok
    /\ redis[cache_result.key] # NoValue
    /\ cache_result.returned = PyNone

\* the listing a served value was computed from
ListingOf(served) ==
    IF served.type = "Response" THEN served.data
    ELSE IF served.type = "str" THEN served.body_of
    ELSE {}

\* C18: creating a target leaves no cached listing entry in the store, and
\* every listing read reflects all targets created before it.
C18_CreationInvalidatesListing ==
    /\ (http_result.op = "create_database_connection" /\ http_result.status = 201) =>
          http_result.listing_keys_left = {}
    /\ http_result.op = "get_databases" =>
          \A t \in http_result.rows : t \in ListingOf(http_result.served)

Checkpoints == {0, 10, 50, 80, 100}

\* the polls of an id that returned its entry
Returned(task_id) == {i \in 1..Len(polls[task_id]) : polls[task_id][i] # TaskNotFound}

\* C20: the progress values a task's status polls return never decrease from
\* one poll to the next and are all among 0, 10, 50, 80 and 100; the stored
\* progress itself never decreases.
C20_ProgressMonotone ==
    /\ [](\A task_id \in TaskIds :
            /\ \A i \in Returned(task_id) : polls[task_id][i].progress \in Checkpoints
            /\ \A i, j \in Returned(task_id) :
                  i < j => polls[task_id][i].progress <= polls[task_id][j].progress
            /\ tasks[task_id] # NoTask => tasks[task_id].progress \in Checkpoints)
    /\ [][\A task_id \in TaskIds :
            (tasks[task_id] # NoTask /\ tasks'[task_id] # NoTask) =>
                tasks[task_id].progress <= tasks'[task_id].progress]_vars

\* a task was polled before its thread ran, midway and after it completed,
\* while another task failed midway and was polled afterwards
C20_Witness ==
    \E task_id, other \in TaskIds :
        /\ tasks[task_id] # NoTask /\ tasks[task_id].status = "completed"
        /\ Len(polls[task_id]) >= 3
        /\ Returned(task_id) = 1..Len(polls[task_id])
        /\ polls[task_id][1].progress = 0
        /\ polls[task_id][2].progress = 50
        /\ polls[task_id][Len(polls[task_id])].progress = 100
        /\ tasks[other] # NoTask /\ tasks[other].status = "failed"
        /\ tasks[other].progress = 50
        /\ Len(polls[other]) >= 1
        /\ polls[other][Len(polls[other])] # TaskNotFound
        /\ polls[other][Len(polls[other])].progress = 50

\* the status changes _run_database_analysis can make to an entry
Lifecycle ==
    {<<"pending", "running">>, <<"running", "completed">>, <<"running", "failed">>}

Terminal == {"completed", "failed"}

\* C21: the status of a job only moves pending -> running -> completed or
\* pending -> running -> failed; a completed or failed job never changes in
\* any field; a job's entry changes only in a step of its own execution,
\* never through get_task_status or the submission or execution of another
\* job
C21_JobLifecycle ==
    [][/\ \A task_id \in TaskIds :
            LET before == tasks[task_id]
                after == tasks'[task_id]
            IN /\ before = NoTask => (after = NoTask \/ after.status = "pending")
               /\ before # NoTask =>
                     /\ after # NoTask
                     /\ after.status # before.status =>
                           <<before.status, after.status>> \in Lifecycle
                     /\ before.status \in Terminal => after = before
                     /\ after # before =>
                           /\ task_pc'[task_id] # task_pc[task_id]
                           /\ \A other \in TaskIds \ {task_id} :
                                 /\ tasks'[other] = tasks[other]
                                 /\ task_pc'[other] = task_pc[other]
       /\ polls' # polls => tasks' = tasks]_vars

\* one job has completed and the other has failed, both after they were
\* seen running by a poll
C21_Witness ==
    \E task_id, other \in TaskIds :
        /\ tasks[task_id] # NoTask /\ tasks[task_id].status = "completed"
        /\ tasks[other] # NoTask /\ tasks[other].status = "failed"
        /\ \E i \in Returned(task_id) : polls[task_id][i].status = "running"
        /\ \E i \in Returned(other) : polls[other][i].status = "running"

\* C22: get_task_status for an id that was never submitted raises NotFound
\* (ValueError, not a failed job) and creates no entry; for a submitted id it
\* returns that job's entry as stored, from the submission onwards and after
\* the job has completed or failed; entries are never dropped
C22_StatusOfUnknownAndKnownJobs ==
    /\ [](\A task_id \in TaskIds :
            /\ (tasks[task_id] # NoTask) <=> (task_pc[task_id] # "none")
            /\ tasks[task_id] # NoTask => tasks[task_id].id = task_id
            /\ \A i \in Returned(task_id) : polls[task_id][i].id = task_id)
    /\ [][\A task_id \in TaskIds :
            /\ tasks[task_id] # NoTask => tasks'[task_id] # NoTask
            /\ polls'[task_id] # polls[task_id] =>
                  /\ tasks' = tasks
                  /\ polls'[task_id] =
                        Append(polls[task_id],
                               IF task_pc[task_id] = "none" THEN TaskNotFound
                               ELSE tasks[task_id])]_vars

\* an id was asked for before its submission (NotFound), right after it and
\* after the job failed; the other id was never submitted and has no entry
C22_Witness ==
    \E task_id, other \in TaskIds :
        /\ Len(polls[task_id]) >= 3
        /\ polls[task_id][1] = TaskNotFound
        /\ polls[task_id][2] # TaskNotFound /\ polls[task_id][2].status = "pending"
        /\ polls[task_id][3] # TaskNotFound /\ polls[task_id][3].status = "failed"
        /\ tasks[task_id] # NoTask /\ tasks[task_id].status = "failed"
        /\ tasks[other] = NoTask
        /\ Len(polls[other]) >= 1
        /\ polls[other][1] = TaskNotFound

(***************************************************************************)
(* Claims on the alert of the anomaly detector                             *)
(***************************************************************************)
Detected == ml_result.op = "detect_anomalies" /\ ml_result.reason = "none"

Flagged == ml_result.returned = "anomaly_detected=True"

SeverityOf(anomaly_score) ==
    IF anomaly_score < AnomalySeverityCutoff THEN "high" ELSE "medium"

CleanedUp == ml_result.op = "cleanup_old_data" /\ ml_result.status = "success"

\* C28: a cleanup run deletes exactly the MetricSamples whose timestamp is
\* more than 30 days before the run and keeps, in order, those within 30
\* days, for every target; a run that fails deletes none
C28_CleanupDeletesSamplesOlderThanThirtyDays ==
    LET Within(row) == ml_result.at - row.timestamp <= MetricRetentionDays * SecondsPerDay
    IN /\ CleanedUp =>
             \A t \in Targets :
                 performance_metrics[t] = SelectSeq(ml_result.metrics_before[t], Within)
       /\ (ml_result.op = "cleanup_old_data" /\ ml_result.status = "error") =>
             performance_metrics = ml_result.metrics_before

\* a run on day 31 found samples 31, 30 and 29 days old for both targets and
\* left the two younger ones of each
C28_Witness ==
    /\ CleanedUp
    /\ ml_result.at = CleanupStart
    /\ \A t \in Targets :
          /\ ml_result.metrics_before[t] = SampleRows
          /\ performance_metrics[t] = SubSeq(SampleRows, 2, 3)
    /\ ml_result.metrics_removed = 2

\* C29: a cleanup run deletes an Alert only when it is resolved and was
\* resolved more than 7 days before the run, a Recommendation only when it
\* is applied and was applied more than 30 days before the run; every other
\* alert and recommendation stays, and targets and QueryStats are untouched
C29_CleanupSparesOpenAlertsAndUnappliedRecommendations ==
    LET KeptAlert(alert) ==
            ~(/\ alert.is_resolved
              /\ alert.resolved_at # None
              /\ ml_result.at - alert.resolved_at > AlertRetentionDays * SecondsPerDay)
        KeptRecommendation(rec) ==
            ~(/\ rec.is_applied
              /\ rec.applied_at # None
              /\ ml_result.at - rec.applied_at > MetricRetentionDays * SecondsPerDay)
    IN (ml_result.op = "cleanup_old_data") =>
          /\ CleanedUp =>
                /\ alerts = SelectSeq(ml_result.alerts_before, KeptAlert)
                /\ recommendations = SelectSeq(ml_result.recommendations_before, KeptRecommendation)
          /\ \A i \in DOMAIN ml_result.alerts_before :
                ~ml_result.alerts_before[i].is_resolved =>
                    \E j \in DOMAIN alerts : alerts[j] = ml_result.alerts_before[i]
          /\ \A i \in DOMAIN ml_result.recommendations_before :
                ~ml_result.recommendations_before[i].is_applied =>
                    \E j \in DOMAIN recommendations :
                        recommendations[j] = ml_result.recommendations_before[i]
          /\ query_statistics = ml_result.statistics_before
          /\ is_active = ml_result.active_before
          /\ connection_status = ml_result.status_before

\* a run that found every kind of alert and recommendation removed the alert
\* resolved 8 days ago and the recommendation applied 31 days ago
C29_Witness ==
    /\ CleanedUp
    /\ ml_result.alerts_before = AlertRows
    /\ ml_result.recommendations_before = RecommendationRows
    /\ alerts = Subsequence(AlertRows, {1, 2, 4, 5})
    /\ recommendations = Subsequence(RecommendationRows, {1, 2, 4, 5})
    /\ query_statistics[2][EarlierRow.query_hash] = <<EarlierRow>>

(***************************************************************************)
(* Claims on periodic scheduling                                           *)
(***************************************************************************)
\* the cadence the jobs are described with, in seconds
Cadence(task) ==
    IF task = "collect_query_statistics_task" THEN StatisticsCountdown ELSE AnalysisCountdown

\* C24: for one target, two runs of query-statistics collection are at least
\* 5 minutes apart and two runs of the analysis at least 10 minutes: the
\* jobs run with a 5- and a 10-minute cadence, not once per scheduler tick
C24_StatisticsAndAnalysisCadence ==
    \A first, second \in runs :
        (/\ first.task = second.task
         /\ first.task \in {"collect_query_statistics_task", "analyze_performance_task"}
         /\ first.db_id = second.db_id
         /\ first.started < second.started) =>
            second.started - first.started >= Cadence(first.task)

\* the messages one scheduler run owes a target
Owed(db_id, at) == Sent(ScheduledCalls({db_id}, at))

\* the collection run of a target that was sent at a beat, if it has started
RunOf(db_id, eta) ==
    {r \in runs : r.task = "collect_metrics_task" /\ r.db_id = db_id /\ r.eta = eta}

BeatTimes == {b * BeatPeriod : b \in 0..(MaxBeats - 1)}

C25_SchedulingFailureIsLocal ==
    sched_result.status = "error" =>
        \A db_id \in sched_result.selected \ {sched_result.failed_for} :
            Owed(db_id, sched_result.at) \subseteq sched_result.sent

(***************************************************************************)
(* Claims on concurrent collection jobs                                    *)
(***************************************************************************)
\* C26: for every target the timestamps of its MetricSamples never decrease
\* in the order in which the samples were appended, however the collection
\* jobs interleave
C26_TimestampsOrderedInAppendOrder ==
    \A t \in Targets :
        \A i, j \in 1..Len(performance_metrics[t]) :
            i < j => performance_metrics[t][i] <= performance_metrics[t][j]

(***************************************************************************)
(* Claims on the visibility of a query-statistics pass                     *)
(***************************************************************************)
\* the rows of a (target, hash) before the pass and after all of it
PrePass(db_id, query_hash) == pass.before[db_id][query_hash]

PostPass(db_id, query_hash) ==
    ApplyStats(pass.before, pass.db_id, pass.stats, pass.at)[db_id][query_hash]

\* C27: what another session reads for a (target, hash) is either the row as
\* it was before the pass or the row as the whole pass leaves it, never a
\* row with some attributes of the pass and some from before: the pre-pass
\* row until the commit, the post-pass row after it, the pre-pass row again
\* when the commit failed
C27_ReadersSeeWholePasses ==
    pass.state # "idle" =>
        \A i \in DOMAIN seen_rows :
            LET obs == seen_rows[i] IN
            /\ obs.rows \in {PrePass(obs.db_id, obs.query_hash),
                              PostPass(obs.db_id, obs.query_hash)}
            /\ obs.during \in {"idle", "loop", "rolled_back"} =>
                  obs.rows = PrePass(obs.db_id, obs.query_hash)
            /\ obs.during = "committed" => obs.rows = PostPass(obs.db_id, obs.query_hash)

\* a row was read while the pass had assigned some of its attributes, and
\* again after the commit: first the old row, then the new one
C27_Witness ==
    /\ pass.state = "committed"
    /\ Len(seen_rows) = 2
    /\ seen_rows[1].during = "loop" /\ seen_rows[2].during = "committed"
    /\ seen_rows[1].db_id = 2 /\ seen_rows[2].db_id = 2
    /\ seen_rows[1].query_hash = EarlierRow.query_hash
    /\ seen_rows[2].query_hash = EarlierRow.query_hash
    /\ seen_rows[1].rows = <<EarlierRow>>
    /\ seen_rows[2].rows # <<EarlierRow>>
    /\ seen_rows[2].rows[1].calls # EarlierRow.calls

(***************************************************************************)
(* Claims on the origin of the alerts of the prediction engine             *)
(***************************************************************************)
\* the key of the estimator a serving call used: the target's own, or the
\* global one after the fallback
ModelKeyUsed == CacheKey("anomaly_detector", ml_result.owner)

\* C31: the Alert that detect_anomalies stored records the key of the model
\* that produced it (the target's own model or the global fallback), and it
\* references an existing target
C31_AlertRecordsModelKey ==
    (Detected /\ Flagged /\ ml_result.alert_stored) =>
        LET alert == alerts[ml_result.alerts_before + 1] IN
        /\ alert.database_id \in Targets
        /\ alert.alert_source = ModelKeyUsed

(***************************************************************************)
(* Claims on the effect of one collection job                              *)
(***************************************************************************)
\* the run found its target active, obtained a pool, had every
\* introspection query answered and met no exception
HealthyRun(r) ==
    /\ r.status # "none"
    /\ r.reason \notin {"database_inactive", "connection_pool_failed", "metrics_collection_failed"}
    /\ r.raised = "none"

\* C32: a collection job for an active target with a healthy pool appends
\* exactly one sample for that target, stamped with the time of the run, sets
\* the target's connection_status to connected and its last_connected to the
\* time of the run, and leaves the samples, the status, the last_connected
\* time and the pool of every other target as they were
C32_CollectionTouchesOnlyItsTarget ==
    [][(cm_result' # cm_result /\ HealthyRun(cm_result')) =>
          LET db_id == cm_result'.db_id IN
          /\ cm_result'.status = "success"
          /\ performance_metrics'[db_id] = Append(performance_metrics[db_id], now)
          /\ connection_status'[db_id] = "connected"
          /\ last_connected'[db_id] = now
          /\ \A t \in Targets \ {db_id} :
                /\ performance_metrics'[t] = performance_metrics[t]
                /\ connection_status'[t] = connection_status[t]
                /\ last_connected'[t] = last_connected[t]
                /\ connection_pools'[t] = connection_pools[t]
          /\ \A p \in pools_created' \ pools_created : p.db_id = db_id]_vars

\* target 1 was collected again, later than target 2, whose sample, status
\* and last_connected time are those of its own run
C32_Witness ==
    /\ cm_result.status = "success" /\ cm_result.db_id = 1
    /\ Len(performance_metrics[1]) = 2
    /\ Len(performance_metrics[2]) = 1
    /\ connection_status = [t \in Targets |-> "connected"]
    /\ last_connected[1] = now
    /\ last_connected[2] # NoTime /\ last_connected[2] < now

(***************************************************************************)
(* Claims on jobs for missing and deactivated targets                      *)
(***************************************************************************)
\* C33: a collection, query-statistics or analysis job that runs for an id
\* without a row, or for a target that is inactive when the job runs (also
\* one deactivated after the scheduling beat and before the delayed run),
\* returns 'skipped' and changes no pool, sample, query statistic, alert,
\* recommendation, connection_status or last_connected time
C33_JobsForInactiveTargetsAreSkipped ==
    [][\A r \in runs' \ runs :
          ~r.active =>
              /\ r.status = "skipped"
              /\ UNCHANGED <<connection_pools, pools_created, performance_metrics,
                             query_statistics, alerts, recommendations, connection_status,
                             last_connected>>]_vars

\* target 1 was collected while active, deactivated afterwards, and its
\* delayed jobs ran and were skipped; the three jobs for the id without a
\* row were skipped too
C33_Witness ==
    /\ \E r \in runs : r.task = "collect_metrics_task" /\ r.db_id = 1 /\ r.active
                         /\ r.status # "skipped"
    /\ \E r \in runs : /\ r.task = "collect_query_statistics_task" /\ r.db_id = 1
                         /\ r.started = StatisticsCountdown /\ ~r.active /\ r.status = "skipped"
    /\ \E r \in runs : /\ r.task = "analyze_performance_task" /\ r.db_id = 1
                         /\ r.started = AnalysisCountdown /\ ~r.active /\ r.status = "skipped"
    /\ \A task \in MonitoringTasks :
          \E r \in runs : r.task = task /\ r.db_id = MissingTarget /\ r.status = "skipped"
    /\ connection_pools[1] # NoPool

(***************************************************************************)
(* Claims on the retries of a training job                                 *)
(***************************************************************************)
Raised(r) == r.status = "retry"

\* C35: a training job is sent again only when its execution raised, each
\* time 60 seconds after the execution that raised and at most 3 times; an
\* execution that raises with its retries used up ends the job as failed; an
\* insufficient-data result leaves nothing to run; the job is executed at
\* most 4 times
C35_TrainingRetriesAreBounded ==
    /\ Cardinality(runs) <= 4
    /\ \A r \in runs :
          /\ r.retries \in 0..3
          /\ r.state = "RETRY" <=> (Raised(r) /\ r.retries < 3)
          /\ r.state = "FAILURE" <=> (Raised(r) /\ r.retries = 3)
          /\ r.status \in {"insufficient_data", "insufficient_valid_data"} => r.state = "SUCCESS"
          /\ r.retries > 0 =>
                \E p \in runs : /\ p.retries = r.retries - 1 /\ p.state = "RETRY"
                                 /\ r.eta = p.started + 60 /\ r.started >= r.eta
    /\ \A msg \in queue :
          msg.retries > 0 =>
              \E p \in runs : /\ p.retries = msg.retries - 1 /\ p.state = "RETRY"
                               /\ msg.eta = p.started + 60
    /\ (\E r \in runs : r.state \in {"SUCCESS", "FAILURE"}) => queue = {}

\* the fourth execution raised too and the job has failed, three minutes
\* after it was sent
C35_Witness ==
    /\ Cardinality(runs) = 4
    /\ \E r \in runs : r.retries = 3 /\ r.state = "FAILURE" /\ r.started = 180
    /\ queue = {}

(***************************************************************************)
(* Claims on query-statistics passes running side by side                  *)
(***************************************************************************)
\* C34: two query-statistics passes of the same target that run at the same
\* time never leave two QueryStat rows with the same (target, query hash)
C34_ConcurrentPassesLeaveOneRowPerHash ==
    (\A p \in PassIds : passes[p].state # "loop") =>
        \A t \in Targets, h \in QueryHashes : Len(query_statistics[t][h]) <= 1

(***************************************************************************)
(* Claims on the pair a serving call uses                                  *)
(***************************************************************************)
\* C36: the estimator and the scaler a serving call predicts with were
\* written together, by one training run of one model key
C36_ServedPairIsFromOneTrainingRun ==
    (ml_result.op = "predict_load" /\ ml_result.returned = "prediction") =>
        ml_result.model = ml_result.scaler

(***************************************************************************)
(* Claims on the termination and the consistency of on-demand jobs         *)
(***************************************************************************)
\* C37: every submitted job eventually has status completed or failed, as
\* long as its thread keeps being scheduled, also when its execution raises
C37_EveryJobTerminates ==
    \A task_id \in TaskIds :
        (tasks[task_id] # NoTask) ~> (tasks[task_id] # NoTask /\ tasks[task_id].status \in Terminal)

\* both jobs have ended, one completed and one failed after its execution
\* raised
C37_Witness ==
    /\ \A task_id \in TaskIds : tasks[task_id] # NoTask /\ task_pc[task_id] = "done"
    /\ \E task_id \in TaskIds : tasks[task_id].status = "completed"
    /\ \E task_id \in TaskIds : tasks[task_id].status = "failed" /\ tasks[task_id].progress = 50

\* the fields of an entry agree with its status
Consistent(info) ==
    /\ (info.status = "completed") <=> (info.progress = 100)
    /\ info.status = "completed" =>
          info.result # "None" /\ info.error = "None" /\ info.completed_at # "None"
    /\ info.status = "failed" =>
          info.error # "None" /\ info.result = "None" /\ info.completed_at # "None"
    /\ info.status \in {"pending", "running"} =>
          /\ info.completed_at = "None" /\ info.result = "None" /\ info.error = "None"
          /\ info.progress < 100
    /\ info.status = "pending" => info.progress = 0

\* C38: in every entry get_task_status can return or has returned, status
\* completed goes with progress 100, a result, a completion time and no
\* error; failed with an error, a completion time and no result; pending and
\* running with none of the three and progress below 100, pending with
\* progress 0
C38_JobFieldsAreConsistent ==
    \A task_id \in TaskIds :
        /\ tasks[task_id] # NoTask => Consistent(tasks[task_id])
        /\ \A i \in Returned(task_id) : Consistent(polls[task_id][i])

\* polls have returned a job as pending, as running before its first
\* progress, as failed at progress 80 and as completed
C38_Witness ==
    \E task_id, other \in TaskIds :
        /\ \E i \in Returned(task_id) :
              polls[task_id][i].status = "running" /\ polls[task_id][i].progress = 0
        /\ \E i \in Returned(task_id) : polls[task_id][i].status = "completed"
        /\ \E i \in Returned(other) : polls[other][i].status = "pending"
        /\ \E i \in Returned(other) :
              polls[other][i].status = "failed" /\ polls[other][i].progress = 80

(***************************************************************************)
(* Claims on the executions of a view behind cache_response                *)
(***************************************************************************)
\* C39: a call of the cache_response wrapper runs the wrapped function at
\* most once: not at all on a cache hit, and exactly once on a miss or on a
\* cache failure, also when the wrapped function itself raises
C39_WrappedFunctionRunsAtMostOnce ==
    http_result.op = "wrapper" =>
        /\ http_result.executions <= 1
        /\ http_result.hit => http_result.executions = 0
        /\ ~http_result.hit => http_result.executions = 1

====
